---- MODULE Spec2Model ----
(***************************************************************************)
(* Model of jup-rust-sdk: the transaction signer sign_transaction          *)
(* (examples/src/lib.rs), the instruction assembler swap_with_instructions *)
(* (examples/src/swap.rs), the JupiterClient and its API methods           *)
(* (jup-ag-sdk/src/client.rs, client/*.rs, error.rs) and the request       *)
(* builders (jup-ag-sdk/src/types).                                        *)
(*                                                                         *)
(* Texts are sequences of symbol values, byte strings are sequences of     *)
(* 0..255.  The wire formats (base64, base58, the bincode layout of a      *)
(* VersionedTransaction) are computed symbol by symbol; the field widths   *)
(* (signature, public key, secret, blockhash) are scaled down and named.   *)
(***************************************************************************)
EXTENDS Integers, Sequences, FiniteSets, TLC

VARIABLES
    procEnv,      \* process environment: the value of PRIVATE_KEY, or unset
    dotFile,      \* the .env file: absent, or its PRIVATE_KEY entry (or none)
    last,         \* the most recent sign_transaction call (or NoCall)
    prev,         \* the latest call before it that returned (or NoEarlier)
    netLog,       \* network requests issued so far, in order
    pc,           \* position of swap_with_instructions
    swapIx,       \* the SwapInstructions response being assembled
    instructions, \* swap.rs:115  let mut instructions
    altQueue,     \* lookup-table addresses not yet resolved
    alts,         \* swap.rs:140  let mut address_table_lookups
    chain,        \* chain-query collaborator: what get_account answers
    asmKeypair,   \* swap.rs:162  let keypair (once loaded)
    compiled,     \* arguments handed to v0::Message::try_compile
    asmPanic,     \* the panic that ended swap_with_instructions, or ""
    threads,      \* concurrent invocations: each one's position and locals
    client,       \* the JupiterClient of the program: base_url and headers
    given,        \* the base URL the program passed to JupiterClient::new
    api,          \* the API call under way or last made, and its result
    ultraReq,     \* the UltraOrderRequest being built
    triggerReq,   \* the CreateTriggerOrder being built
    priceReq,     \* the TokenPriceRequest being built
    recurringReq, \* the CreateRecurringOrderRequest being built
    setters,      \* the constructor and setter calls made on the request
                  \* being built, in order
    flows         \* the runs of the example programs made so far, in order

vars == <<procEnv, dotFile, last, prev, netLog, pc, swapIx, instructions,
          altQueue, alts, chain, asmKeypair, compiled, asmPanic, threads,
          client, given, api, ultraReq, triggerReq, priceReq,
          recurringReq, setters, flows>>

asmVars == <<pc, swapIx, instructions, altQueue, alts, chain, asmKeypair,
             compiled, asmPanic>>

reqVars == <<ultraReq, triggerReq, priceReq, recurringReq, setters>>

sdkVars == <<client, given, api, reqVars, flows>>

-----------------------------------------------------------------------------
(* Bounds: scaled field widths and input sizes.                            *)

SigLen    == 2   \* bytes of a signature (64 on the wire)
PubkeyLen == 1   \* bytes of a public key / address (32 on the wire)
SecretLen == 1   \* bytes of the secret half of a keypair (32 on the wire)
HashLen   == 1   \* bytes of a recent blockhash (32 on the wire)
MaxSlots  == 2   \* most signature slots of an input envelope
MaxGroup  == 2   \* most instructions in one group of a SwapInstructions response
MaxRuns   == 2   \* most runs of swap_with_instructions in one behaviour

-----------------------------------------------------------------------------
(* Results: Rust's Result<T, E>.                                           *)

Ok(v)  == [ok |-> TRUE,  val |-> v]
Err(e) == [ok |-> FALSE, err |-> e]

Rep(b, n) == [i \in 1..n |-> b]

Reverse(s) == [i \in 1..Len(s) |-> s[Len(s) + 1 - i]]

RECURSIVE Concat(_)
Concat(ss) == IF ss = <<>> THEN <<>> ELSE Head(ss) \o Concat(Tail(ss))

-----------------------------------------------------------------------------
(* base64, STANDARD engine: symbols 0..63, PAD for '=', anything above is  *)
(* a character outside the alphabet.                                       *)

PAD == 64
BadSym == 65

RECURSIVE Base64Encode(_)
Base64Encode(b) ==
    IF Len(b) = 0 THEN <<>>
    ELSE IF Len(b) = 1 THEN
        <<b[1] \div 4, (b[1] % 4) * 16, PAD, PAD>>
    ELSE IF Len(b) = 2 THEN
        <<b[1] \div 4, (b[1] % 4) * 16 + b[2] \div 16, (b[2] % 16) * 4, PAD>>
    ELSE
        <<b[1] \div 4, (b[1] % 4) * 16 + b[2] \div 16,
          (b[2] % 16) * 4 + b[3] \div 64, b[3] % 64>>
        \o Base64Encode(SubSeq(b, 4, Len(b)))

RECURSIVE Base64Quads(_)
Base64Quads(t) ==
    IF Len(t) = 0 THEN <<>>
    ELSE LET q == SubSeq(t, 1, 4)
             rest == SubSeq(t, 5, Len(t))
         IN  IF q[3] = PAD THEN <<q[1] * 4 + q[2] \div 16>>
             ELSE IF q[4] = PAD THEN
                 <<q[1] * 4 + q[2] \div 16, (q[2] % 16) * 16 + q[3] \div 4>>
             ELSE <<q[1] * 4 + q[2] \div 16, (q[2] % 16) * 16 + q[3] \div 4,
                    (q[3] % 4) * 64 + q[4]>> \o Base64Quads(rest)

\* Padding is required and canonical, the unused trailing bits must be zero.
Base64Decode(t) ==
    LET n == Len(t)
        padOk == \A i \in 1..n : t[i] = PAD =>
                    /\ i >= n - 1
                    /\ (i = n - 1 => t[n] = PAD)
        bitsOk == n > 0 =>
                    /\ (t[n - 1] = PAD => t[n - 2] % 16 = 0)
                    /\ (t[n] = PAD /\ t[n - 1] # PAD => t[n - 1] % 4 = 0)
    IN  IF \E i \in 1..n : t[i] > PAD THEN Err("InvalidByte")
        ELSE IF n % 4 # 0 THEN Err("InvalidLength")
        ELSE IF ~padOk THEN Err("InvalidPadding")
        ELSE IF ~bitsOk THEN Err("InvalidLastSymbol")
        ELSE Ok(Base64Quads(t))

-----------------------------------------------------------------------------
(* base58 (bs58): digits 0..57, anything above is a character outside the  *)
(* alphabet.  The library converts radix with a little-endian accumulator  *)
(* and turns each leading zero digit into one leading zero byte.           *)

B58Bad == 58

RECURSIVE MulAdd(_, _, _, _)
MulAdd(acc, carry, mul, radix) ==
    IF acc = <<>> THEN
        IF carry = 0 THEN <<>>
        ELSE <<carry % radix>> \o MulAdd(<<>>, carry \div radix, mul, radix)
    ELSE LET v == acc[1] * mul + carry
         IN  <<v % radix>> \o MulAdd(Tail(acc), v \div radix, mul, radix)

RECURSIVE RadixFold(_, _, _, _)
RadixFold(input, acc, mul, radix) ==
    IF input = <<>> THEN acc
    ELSE RadixFold(Tail(input), MulAdd(acc, Head(input), mul, radix), mul, radix)

RECURSIVE LeadingZeros(_)
LeadingZeros(s) ==
    IF s = <<>> \/ Head(s) # 0 THEN 0 ELSE 1 + LeadingZeros(Tail(s))

Base58Encode(bytes) ==
    Reverse(RadixFold(bytes, <<>>, 256, 58) \o Rep(0, LeadingZeros(bytes)))

Base58Decode(text) ==
    IF \E i \in 1..Len(text) : text[i] >= B58Bad THEN Err("InvalidCharacter")
    ELSE Ok(Reverse(RadixFold(text, <<>>, 58, 256) \o Rep(0, LeadingZeros(text))))

-----------------------------------------------------------------------------
(* Wire format of a VersionedTransaction (bincode): a short_vec of          *)
(* signatures, then the message.  A legacy message starts with its header,  *)
(* a v0 message with the prefix byte 0x80.  short_vec counts below 0x80     *)
(* take one byte; a count byte >= 0x80 announces at least 128 elements,     *)
(* more than any input of the model holds.                                  *)

V0Prefix == 128

MessageSerialize(m) ==
    (IF m.version = "v0" THEN <<V0Prefix>> ELSE <<>>)
    \o m.header
    \o <<Len(m.account_keys)>> \o Concat(m.account_keys)
    \o m.recent_blockhash
    \o <<Len(m.instructions)>> \o m.instructions
    \o (IF m.version = "v0"
        THEN <<Len(m.address_table_lookups)>> \o m.address_table_lookups
        ELSE <<>>)

TxSerialize(tx) ==
    <<Len(tx.signatures)>> \o Concat(tx.signatures) \o MessageSerialize(tx.message)

\* The message that starts at position p of b; bytes after it are ignored.
MessageDeserialize(b, p) ==
    IF p > Len(b) THEN Err("io error: unexpected end of file")
    ELSE IF b[p] > V0Prefix THEN Err("unsupported message version")
    ELSE
    LET v0 == b[p] = V0Prefix
        h  == IF v0 THEN p + 1 ELSE p        \* header
        kc == h + 3                          \* account key count
        bh == kc + 1 + b[kc] * PubkeyLen     \* recent blockhash
        ic == bh + HashLen                   \* instruction count
        lc == ic + 1 + b[ic]                 \* lookup count (v0)
    IN  IF kc > Len(b) \/ b[kc] >= V0Prefix THEN Err("io error: unexpected end of file")
        ELSE IF ic > Len(b) \/ b[ic] >= V0Prefix THEN Err("io error: unexpected end of file")
        ELSE IF lc - 1 > Len(b) THEN Err("io error: unexpected end of file")
        ELSE IF v0 /\ (lc > Len(b) \/ b[lc] >= V0Prefix \/ lc + b[lc] > Len(b))
             THEN Err("io error: unexpected end of file")
        ELSE Ok([version |-> IF v0 THEN "v0" ELSE "legacy",
                 header |-> SubSeq(b, h, h + 2),
                 account_keys |-> [i \in 1..b[kc] |->
                     SubSeq(b, kc + 1 + (i - 1) * PubkeyLen, kc + i * PubkeyLen)],
                 recent_blockhash |-> SubSeq(b, bh, ic - 1),
                 instructions |-> SubSeq(b, ic + 1, lc - 1),
                 address_table_lookups |->
                     IF v0 THEN SubSeq(b, lc + 1, lc + b[lc]) ELSE <<>>])

TxDeserialize(b) ==
    IF Len(b) < 1 \/ b[1] >= V0Prefix THEN Err("io error: unexpected end of file")
    ELSE IF 1 + b[1] * SigLen > Len(b) THEN Err("io error: unexpected end of file")
    ELSE LET m == MessageDeserialize(b, 2 + b[1] * SigLen)
         IN  IF ~m.ok THEN m
             ELSE Ok([signatures |-> [i \in 1..b[1] |->
                          SubSeq(b, 2 + (i - 1) * SigLen, 1 + i * SigLen)],
                      message |-> m.val])

-----------------------------------------------------------------------------
(* Keys and signatures.  The curve arithmetic is abstracted: PublicOf is a  *)
(* fixed function of the secret, sign_message a fixed function of the       *)
(* secret and the message bytes (Ed25519 signing is deterministic).         *)

PublicOf(secret) ==
    [i \in 1..PubkeyLen |-> (3 * secret[((i - 1) % SecretLen) + 1] + i) % 256]

\* A faulty variant: any byte string is taken for a keypair.
KeypairFromBytes_Unchecked(b) ==
    Ok([secret |-> SubSeq(b, 1, SecretLen), public |-> SubSeq(b, SecretLen + 1, Len(b))])

\* Keypair::from_bytes: the length must be that of secret and public key, and
\* the public half must be the public key of the secret half.
KeypairFromBytes(b) ==
    IF Len(b) # SecretLen + PubkeyLen THEN Err("signature error")
    ELSE LET s == SubSeq(b, 1, SecretLen)
             p == SubSeq(b, SecretLen + 1, Len(b))
         IN  IF p # PublicOf(s) THEN Err("signature error")
             ELSE Ok([secret |-> s, public |-> p])

RECURSIVE Digest(_, _)
Digest(bytes, h) ==
    IF bytes = <<>> THEN h
    ELSE Digest(Tail(bytes), (h * 31 + Head(bytes) + 1) % 251)

\* A faulty variant: the signature also depends on whether the process signed before.
sign_message_Nonce(keypair, message) ==
    [i \in 1..SigLen |->
        Digest(keypair.secret \o message \o <<IF last.kind = "none" THEN 0 ELSE 1>>, i)]

\* lib.rs:65  keypair.sign_message(&message)
sign_message(keypair, message) ==
    [i \in 1..SigLen |-> Digest(keypair.secret \o message, i)]

-----------------------------------------------------------------------------
(* sign_transaction (examples/src/lib.rs).                                  *)

Unset == [set |-> FALSE, val |-> <<>>]
SetTo(v) == [set |-> TRUE, val |-> v]

NoFile == [exists |-> FALSE, entry |-> Unset]
FileWith(entry) == [exists |-> TRUE, entry |-> entry]

\* A faulty variant: the file's entry replaces a variable that is already set.
Dotenv_Override(env, file) ==
    IF file.exists /\ file.entry.set THEN file.entry ELSE env

\* dotenv().ok(): every entry of the .env file whose variable is not yet set
\* is added to the process environment; a missing file is ignored.
Dotenv(env, file) ==
    IF file.exists /\ file.entry.set /\ ~env.set THEN file.entry ELSE env

Returned(text) == [kind |-> "return", text |-> text, msg |-> ""]
Panicked(msg)  == [kind |-> "panic",  text |-> <<>>, msg |-> msg]

\* A faulty variant: the whole envelope is signed, signature list included.
SignedBytes_WholeEnvelope(tx) == TxSerialize(tx)

\* lib.rs:62  tx.message.serialize()
SignedBytes(tx) == MessageSerialize(tx.message)

\* Faulty variants of the slot policy.
InjectSignature_NoPush(signatures, signature) ==
    IF signatures = <<>> THEN signatures
    ELSE [signatures EXCEPT ![1] = signature]
InjectSignature_AlwaysPush(signatures, signature) ==
    Append(signatures, signature)
InjectSignature_Prepend(signatures, signature) ==
    <<signature>> \o signatures
InjectSignature_LastSlot(signatures, signature) ==
    IF signatures = <<>> THEN Append(signatures, signature)
    ELSE [signatures EXCEPT ![Len(signatures)] = signature]
InjectSignature_FillAll(signatures, signature) ==
    IF signatures = <<>> THEN Append(signatures, signature)
    ELSE [i \in 1..Len(signatures) |-> signature]

\* lib.rs:70-74
InjectSignature(signatures, signature) ==
    IF signatures = <<>> THEN Append(signatures, signature)
    ELSE [signatures EXCEPT ![1] = signature]

\* lib.rs:42-80, with env the process environment after dotenv().
sign_transaction(transaction, env) ==
    IF ~env.set THEN Panicked("PRIVATE_KEY not set in .env")
    ELSE LET key_bytes == Base58Decode(env.val) IN
    IF ~key_bytes.ok THEN Panicked("Failed to decode base58 private key")
    ELSE LET keypair == KeypairFromBytes(key_bytes.val) IN
    IF ~keypair.ok THEN Panicked("Failed to create Keypair")
    ELSE LET swap_tx_bytes == Base64Decode(transaction) IN
    IF ~swap_tx_bytes.ok THEN Panicked("Failed to decode base64 transaction")
    ELSE LET tx == TxDeserialize(swap_tx_bytes.val) IN
    IF ~tx.ok THEN Panicked("called Result::unwrap() on an Err value")
    ELSE LET signature == sign_message(keypair.val, SignedBytes(tx.val))
             signed == [tx.val EXCEPT
                          !.signatures = InjectSignature(@, signature)]
         IN  Returned(Base64Encode(TxSerialize(signed)))

-----------------------------------------------------------------------------
(* Inputs of the signer: key texts, envelopes and envelope texts.           *)

SecretA == Rep(7, SecretLen)
SecretB == Rep(9, SecretLen)
PubA == PublicOf(SecretA)
PubB == PublicOf(SecretB)
PubC == Rep(200, PubkeyLen)

KeyA == Base58Encode(SecretA \o PubA)
KeyB == Base58Encode(SecretB \o PubB)
KeyShort == Base58Encode(SecretA)                 \* too few bytes
KeyNot58 == [KeyA EXCEPT ![1] = B58Bad]           \* a character outside the alphabet

KeyTexts == {KeyA, KeyB, KeyShort, KeyNot58}

Message(version, keys) ==
    [version |-> version,
     header |-> <<IF Len(keys) > 2 THEN 2 ELSE 1, 0, 1>>,
     account_keys |-> keys,
     recent_blockhash |-> Rep(42, HashLen),
     instructions |-> <<17>>,
     address_table_lookups |-> IF version = "v0" THEN <<3>> ELSE <<>>]

Messages == {Message("legacy", <<PubA, PubC>>),        \* A is the only signer
             Message("v0", <<PubB, PubA, PubC>>)}      \* B first, A second signer

ZeroSlots(n)  == Rep(Rep(0, SigLen), n)               \* unsigned placeholders
OtherSlots(n) == [i \in 1..n |-> Rep(100 + i, SigLen)] \* signatures of others

SlotLists == {ZeroSlots(n) : n \in 0..MaxSlots} \cup {OtherSlots(n) : n \in 0..MaxSlots}

Envelopes == {[signatures |-> s, message |-> m] : s \in SlotLists, m \in Messages}

SampleBytes == TxSerialize([signatures |-> ZeroSlots(1),
                            message |-> Message("legacy", <<PubA, PubC>>)])

TxNotBase64 == [Base64Encode(SampleBytes) EXCEPT ![1] = BadSym]
TxTruncated == Base64Encode(SubSeq(SampleBytes, 1, Len(SampleBytes) - 1))
TxBadVersion == Base64Encode(<<0, V0Prefix + 1>> \o SubSeq(SampleBytes, 2, Len(SampleBytes)))
TxTrailing == Base64Encode(SampleBytes \o <<9>>)

TxTexts == {Base64Encode(TxSerialize(e)) : e \in Envelopes}
           \cup {TxNotBase64, TxTruncated, TxBadVersion, TxTrailing}

EnvValues == {Unset} \cup {SetTo(k) : k \in KeyTexts}
DotFiles == {NoFile, FileWith(SetTo(KeyA))}

\* A call as seen by its caller: the argument, the process environment at
\* entry (env0), the process environment after dotenv(), which the key is
\* read from and which the call leaves behind (key), and the outcome.
NoCall == [kind |-> "none", text |-> <<>>, msg |-> "", tx |-> <<>>,
           env0 |-> Unset, key |-> Unset]

Call(tx, env0, env, out) ==
    [kind |-> out.kind, text |-> out.text, msg |-> out.msg, tx |-> tx,
     env0 |-> env0, key |-> env]

\* What is kept of an earlier call that returned: argument, key and result.
NoEarlier == [kind |-> "none", text |-> <<>>, tx |-> <<>>, key |-> Unset]
Earlier(c) == [kind |-> c.kind, text |-> c.text, tx |-> c.tx, key |-> c.key]

-----------------------------------------------------------------------------
(* swap_with_instructions (examples/src/swap.rs): the instruction assembler. *)

None == [some |-> FALSE, val |-> <<>>]
Some(v) == [some |-> TRUE, val |-> v]
OptList(o) == IF o.some THEN o.val ELSE <<>>

\* The longest base58 text of an address (MAX_BASE58_LEN, 44 on the wire).
MaxBase58Len == Len(Base58Encode(Rep(255, PubkeyLen)))

\* str::parse::<Pubkey>(): base58 text of exactly one address; a text that
\* is too long is refused before it is decoded.
ParsePubkey(text) ==
    IF Len(text) > MaxBase58Len THEN Err("String is the wrong size")
    ELSE LET b == Base58Decode(text)
         IN  IF ~b.ok THEN Err("Invalid Base58 string")
             ELSE IF Len(b.val) # PubkeyLen THEN Err("String is the wrong size")
             ELSE Ok(b.val)

\* A faulty variant: the two flags of an account are exchanged.
RECURSIVE ParseAccounts_FlagsSwapped(_)
ParseAccounts_FlagsSwapped(accounts) ==
    IF accounts = <<>> THEN Ok(<<>>)
    ELSE LET a == Head(accounts)
             pubkey == ParsePubkey(a.pubkey)
         IN  IF ~pubkey.ok THEN Err("Invalid account pubkey: " \o pubkey.err)
             ELSE LET rest == ParseAccounts_FlagsSwapped(Tail(accounts))
                  IN  IF ~rest.ok THEN rest
                      ELSE Ok(<<[pubkey |-> pubkey.val,
                                 is_signer |-> a.is_writable,
                                 is_writable |-> a.is_signer]>> \o rest.val)

\* swap.rs:192-206: the accounts are parsed in list order; collecting into
\* a Result stops at the first one that fails.
RECURSIVE ParseAccounts(_)
ParseAccounts(accounts) ==
    IF accounts = <<>> THEN Ok(<<>>)
    ELSE LET a == Head(accounts)
             pubkey == ParsePubkey(a.pubkey)
         IN  IF ~pubkey.ok THEN Err("Invalid account pubkey: " \o pubkey.err)
             ELSE LET rest == ParseAccounts(Tail(accounts))
                  IN  IF ~rest.ok THEN rest
                      ELSE Ok(<<[pubkey |-> pubkey.val,
                                 is_signer |-> a.is_signer,
                                 is_writable |-> a.is_writable]>> \o rest.val)

\* A faulty variant: the payload is decoded before the accounts are parsed.
parse_instruction_PayloadFirst(instr) ==
    LET program_id == ParsePubkey(instr.program_id) IN
    IF ~program_id.ok THEN Err("Invalid program_id pubkey: " \o program_id.err)
    ELSE LET data == Base64Decode(instr.data) IN
    IF ~data.ok THEN Err("Base64 decoding error in instruction data: " \o data.err)
    ELSE LET accounts == ParseAccounts(instr.accounts) IN
    IF ~accounts.ok THEN accounts
    ELSE Ok([program_id |-> program_id.val,
             accounts |-> accounts.val,
             data |-> data.val])

\* swap.rs:186-217
parse_instruction(instr) ==
    LET program_id == ParsePubkey(instr.program_id) IN
    IF ~program_id.ok THEN Err("Invalid program_id pubkey: " \o program_id.err)
    ELSE LET accounts == ParseAccounts(instr.accounts) IN
    IF ~accounts.ok THEN accounts
    ELSE LET data == Base64Decode(instr.data) IN
    IF ~data.ok THEN Err("Base64 decoding error in instruction data: " \o data.err)
    ELSE Ok([program_id |-> program_id.val,
             accounts |-> accounts.val,
             data |-> data.val])

\* A faulty variant: the cleanup instruction is pushed before the swap instruction.
InstructionOrder_CleanupBeforeSwap(r) ==
    OptList(r.compute_budget_instructions) \o r.setup_instructions
    \o OptList(r.cleanup_instruction) \o <<r.swap_instruction>>
    \o OptList(r.other_instructions)

\* swap.rs:117-137: the order in which the groups are pushed.
InstructionOrder(r) ==
    OptList(r.compute_budget_instructions) \o r.setup_instructions
    \o <<r.swap_instruction>> \o OptList(r.cleanup_instruction)
    \o OptList(r.other_instructions)

\* A faulty variant: an instruction that does not parse is left out.
RECURSIVE PushParsed_SkipBad(_, _)
PushParsed_SkipBad(done, todo) ==
    IF todo = <<>> THEN Ok(done)
    ELSE LET i == parse_instruction(Head(todo))
         IN  PushParsed_SkipBad(IF i.ok THEN Append(done, i.val) ELSE done, Tail(todo))

\* instructions.push(parse_instruction(&instr).unwrap()) for each of todo:
\* the first instruction that does not parse ends the run with its error.
RECURSIVE PushParsed(_, _)
PushParsed(done, todo) ==
    IF todo = <<>> THEN Ok(done)
    ELSE LET i == parse_instruction(Head(todo))
         IN  IF ~i.ok THEN i ELSE PushParsed(Append(done, i.val), Tail(todo))

Request(call, arg) == [call |-> call, arg |-> arg]

NoResponse == [received |-> FALSE]
NoKeypair == [loaded |-> FALSE, secret |-> <<>>, public |-> <<>>]
NotCompiled == [done |-> FALSE]
NoChain == <<>>

\* The state of one run, as a record of the variables it owns.
AsmState ==
    [pc |-> pc, netLog |-> netLog, procEnv |-> procEnv, swapIx |-> swapIx,
     instructions |-> instructions, altQueue |-> altQueue, alts |-> alts,
     keypair |-> asmKeypair, compiled |-> compiled, asmPanic |-> asmPanic]

AsmBecomes(st) ==
    /\ pc' = st.pc
    /\ netLog' = st.netLog
    /\ procEnv' = st.procEnv
    /\ swapIx' = st.swapIx
    /\ instructions' = st.instructions
    /\ altQueue' = st.altQueue
    /\ alts' = st.alts
    /\ asmKeypair' = st.keypair
    /\ compiled' = st.compiled
    /\ asmPanic' = st.asmPanic
    /\ UNCHANGED <<dotFile, chain, last, prev, threads, sdkVars>>

AsmPanics(st, msg) == [st EXCEPT !.pc = "panicked", !.asmPanic = msg]

Awaits(st, call, arg) ==
    [st EXCEPT !.pc = call, !.netLog = Append(@, Request(call, arg))]

\* swap.rs:154-167: the key is loaded and the blockhash asked for.
LoadKeypair(st) ==
    LET env == Dotenv(st.procEnv, dotFile)
        st1 == [st EXCEPT !.procEnv = env]
    IN  IF ~env.set THEN AsmPanics(st1, "PRIVATE_KEY not set in .env")
        ELSE LET key_bytes == Base58Decode(env.val) IN
        IF ~key_bytes.ok THEN AsmPanics(st1, "Failed to decode base58 private key")
        ELSE LET kp == KeypairFromBytes(key_bytes.val) IN
        IF ~kp.ok THEN AsmPanics(st1, "Failed to create Keypair")
        ELSE Awaits([st1 EXCEPT !.keypair = [loaded |-> TRUE,
                                             secret |-> kp.val.secret,
                                             public |-> kp.val.public]],
                    "get_latest_blockhash", <<>>)

\* A faulty variant: a table that is already resolved is not asked for again.
NextLookup_SkipResolved(st) ==
    IF st.altQueue = <<>> THEN LoadKeypair(st)
    ELSE LET alt_pubkey == ParsePubkey(Head(st.altQueue))
         IN  IF ~alt_pubkey.ok THEN AsmPanics(st, alt_pubkey.err)
             ELSE IF \E i \in 1..Len(st.alts) : st.alts[i].key = alt_pubkey.val
             THEN LoadKeypair([st EXCEPT !.altQueue = <<>>])
             ELSE Awaits(st, "get_account", alt_pubkey.val)

\* swap.rs:141-143: the next lookup-table address is parsed and its account
\* asked for; after the last one the run goes on to the key.
NextLookup(st) ==
    IF st.altQueue = <<>> THEN LoadKeypair(st)
    ELSE LET alt_pubkey == ParsePubkey(Head(st.altQueue))
         IN  IF ~alt_pubkey.ok THEN AsmPanics(st, alt_pubkey.err)
             ELSE Awaits(st, "get_account", alt_pubkey.val)

\* The accounts an instruction list requires to sign besides the payer.
OtherSigners(instrs, payer) ==
    UNION {{instrs[i].accounts[j].pubkey :
               j \in {k \in 1..Len(instrs[i].accounts) : instrs[i].accounts[k].is_signer}} :
           i \in 1..Len(instrs)} \ {payer}

-----------------------------------------------------------------------------
(* Inputs of the assembler.                                                 *)

Ix(n) ==
    [program_id |-> Base58Encode(Rep(200 + n, PubkeyLen)),
     accounts |-> <<[pubkey |-> Base58Encode(PubA), is_signer |-> TRUE,
                     is_writable |-> TRUE],
                    [pubkey |-> Base58Encode(Rep(100 + n, PubkeyLen)),
                     is_signer |-> FALSE, is_writable |-> n % 2 = 0]>>,
     data |-> Base64Encode(<<n, 2 * n>>)]

IxGroup(first, n) == [i \in 1..n |-> Ix(first + i)]

IxBadProgram == [Ix(50) EXCEPT !.program_id = <<B58Bad>>]
IxBadAccount == [Ix(50) EXCEPT !.accounts[2].pubkey = Base58Encode(Rep(1, PubkeyLen + 1))]
IxBadData    == [Ix(50) EXCEPT !.data = <<1, 2, 3>>]
\* Two bad accounts, the first of the wrong size, and a bad payload.
IxBadAccountsAndData ==
    [Ix(50) EXCEPT !.accounts[1].pubkey = Base58Encode(Rep(1, PubkeyLen + 1)),
                   !.accounts[2].pubkey = <<B58Bad>>,
                   !.data = <<BadSym>>]
IxAllBad     == [program_id |-> <<B58Bad>>,
                 accounts |-> <<[pubkey |-> <<B58Bad>>, is_signer |-> FALSE,
                                 is_writable |-> FALSE]>>,
                 data |-> <<BadSym>>]

TableA == Rep(61, PubkeyLen)
TableB == Rep(62, PubkeyLen)

AltLists == {<<>>,
             <<Base58Encode(TableA)>>,
             <<Base58Encode(TableA), Base58Encode(TableB)>>,
             <<Base58Encode(TableB), Base58Encode(TableB)>>,
             <<Base58Encode(TableA), <<B58Bad>>>>}

SwapInstructionsResponses ==
    {[received |-> TRUE,
      compute_budget_instructions |-> cb,
      setup_instructions |-> IxGroup(10, ns),
      swap_instruction |-> sw,
      cleanup_instruction |-> cl,
      other_instructions |-> ot,
      address_lookup_table_addresses |-> al] :
        cb \in {None, Some(<<>>), Some(IxGroup(0, MaxGroup))},
        ns \in 0..MaxGroup,
        sw \in {Ix(20), IxBadProgram, IxBadAccount, IxBadData,
                IxBadAccountsAndData, IxAllBad},
        cl \in {None, Some(<<Ix(30)>>)},
        ot \in {None, Some(<<Ix(41), IxBadProgram>>)}
                \cup {Some(IxGroup(40, n)) : n \in 1..MaxGroup},
        al \in AltLists}

\* What the chain holds at a lookup-table address.
Missing == [kind |-> "missing", addresses |-> <<>>]
Garbage == [kind |-> "garbage", addresses |-> <<>>]
Table(addresses) == [kind |-> "table", addresses |-> addresses]

Chains == {[a \in {TableA, TableB} |-> IF a = TableA THEN Table(<<PubC>>) ELSE b] :
              b \in {Table(<<PubB, PubC>>), Missing, Garbage}}

-----------------------------------------------------------------------------
(* Actions of the signer.                                                   *)

\* One call of sign_transaction(transaction): lib.rs:37-81.
SignTransaction(transaction) ==
    LET env == Dotenv(procEnv, dotFile)
    IN  /\ procEnv' = env
        /\ last' = Call(transaction, procEnv, env, sign_transaction(transaction, env))
        /\ prev' = IF last.kind = "return" THEN Earlier(last) ELSE prev
        /\ UNCHANGED <<dotFile, netLog, asmVars, threads, sdkVars>>

\* The process environment is changed between calls (std::env::set_var /
\* remove_var by the embedding program).
SetVar(value) ==
    /\ procEnv' = value
    /\ procEnv # value
    /\ UNCHANGED <<dotFile, last, prev, netLog, asmVars, threads, sdkVars>>

NoThreads == <<>>

\* No client is built and no API call was made.
NoClient == [state |-> "none", base_url |-> <<>>, headers |-> <<>>]
NoApiCall == [at |-> "idle", calls |-> 0, method |-> "", reply |-> <<>>,
              result |-> <<>>]

\* No request is being built.
NoRequest == [state |-> "none"]

SdkIdle ==
    /\ client = NoClient
    /\ given = <<>>
    /\ api = NoApiCall
    /\ ultraReq = NoRequest
    /\ triggerReq = NoRequest
    /\ priceReq = NoRequest
    /\ recurringReq = NoRequest
    /\ setters = <<>>
    /\ flows = <<>>

AsmIdle ==
    /\ pc = "idle"
    /\ swapIx = NoResponse
    /\ instructions = <<>>
    /\ altQueue = <<>>
    /\ alts = <<>>
    /\ asmKeypair = NoKeypair
    /\ compiled = NotCompiled
    /\ asmPanic = ""

SignInit ==
    /\ procEnv \in EnvValues
    /\ dotFile \in DotFiles
    /\ last = NoCall
    /\ prev = NoEarlier
    /\ netLog = <<>>
    /\ chain = NoChain
    /\ threads = NoThreads
    /\ SdkIdle
    /\ AsmIdle

SignNext ==
    \/ \E transaction \in TxTexts : SignTransaction(transaction)
    \/ \E value \in EnvValues : SetVar(value)

SignSpec == SignInit /\ [][SignNext]_vars

-----------------------------------------------------------------------------
(* Actions of the assembler: one per stretch of swap_with_instructions      *)
(* between two awaits.                                                      *)

\* swap.rs:84-100: the clients are built and the quote is asked for.
AsmStart ==
    /\ pc = "idle"
    /\ AsmBecomes(Awaits(AsmState, "get_quote", <<>>))

\* swap.rs:100-112: the quote arrives and the swap instructions are asked for.
QuoteReturns(ok) ==
    /\ pc = "get_quote"
    /\ AsmBecomes(IF ok THEN Awaits(AsmState, "get_swap_instructions", <<>>)
                  ELSE AsmPanics(AsmState, "Failed to get quote"))

\* swap.rs:109-143: the swap instructions arrive, are converted in group
\* order, and the first lookup table is asked for.
SwapInstructionsReturn(response) ==
    /\ pc = "get_swap_instructions"
    /\ IF ~response.received
       THEN AsmBecomes(AsmPanics(AsmState, "Failed to get swap instructions"))
       ELSE LET st == [AsmState EXCEPT !.swapIx = response]
                parsed == PushParsed(<<>>, InstructionOrder(response))
            IN  AsmBecomes(
                    IF ~parsed.ok THEN AsmPanics(st, parsed.err)
                    ELSE NextLookup([st EXCEPT
                            !.instructions = parsed.val,
                            !.altQueue = response.address_lookup_table_addresses]))

\* A faulty variant: a table that cannot be read is left out and the loop goes on.
GetAccountReturns_SkipUnreadable(rpcOk) ==
    /\ pc = "get_account"
    /\ LET alt_pubkey == ParsePubkey(Head(altQueue)).val
           alt_account == chain[alt_pubkey]
       IN  AsmBecomes(
               IF ~rpcOk \/ alt_account.kind # "table"
               THEN NextLookup([AsmState EXCEPT !.altQueue = Tail(@)])
               ELSE NextLookup([AsmState EXCEPT
                       !.alts = Append(@, [key |-> alt_pubkey,
                                           addresses |-> alt_account.addresses]),
                       !.altQueue = Tail(@)]))

\* swap.rs:143-152: the account of a lookup table arrives (or the query
\* fails), the table is resolved and pushed, and the loop goes on.
GetAccountReturns(rpcOk) ==
    /\ pc = "get_account"
    /\ LET alt_pubkey == ParsePubkey(Head(altQueue)).val
           alt_account == chain[alt_pubkey]
       IN  AsmBecomes(
               IF ~rpcOk \/ alt_account.kind = "missing"
               THEN AsmPanics(AsmState, "ClientError")
               ELSE IF alt_account.kind = "garbage"
               THEN AsmPanics(AsmState, "InvalidAccountData")
               ELSE NextLookup([AsmState EXCEPT
                       !.alts = Append(@, [key |-> alt_pubkey,
                                           addresses |-> alt_account.addresses]),
                       !.altQueue = Tail(@)]))

\* swap.rs:164-181: the blockhash arrives, the message is compiled and
\* signed, and the transaction is sent.  try_compile fails only beyond 256
\* account keys, which no input of the model reaches; try_new fails when an
\* instruction names a signer other than the payer.
BlockhashReturns(recent_blockhash) ==
    /\ pc = "get_latest_blockhash"
    /\ AsmBecomes(
           IF ~recent_blockhash.ok THEN AsmPanics(AsmState, "Failed to get blockhash")
           ELSE LET message == [done |-> TRUE,
                                payer |-> asmKeypair.public,
                                instructions |-> instructions,
                                address_lookup_table_accounts |-> alts,
                                recent_blockhash |-> recent_blockhash.val]
                    st == [AsmState EXCEPT !.compiled = message]
                IN  IF OtherSigners(instructions, asmKeypair.public) # {}
                    THEN AsmPanics(st, "NotEnoughSigners")
                    ELSE Awaits(st, "send_and_confirm_transaction", asmKeypair.public))

\* swap.rs:181-182: the confirmation arrives, or the submission failed.
SendReturns(ok) ==
    /\ pc = "send_and_confirm_transaction"
    /\ AsmBecomes(IF ok THEN [AsmState EXCEPT !.pc = "done"]
                  ELSE AsmPanics(AsmState, "ClientError"))

AsmInit ==
    /\ \E e \in {<<Unset, NoFile>>,
                 <<Unset, FileWith(SetTo(KeyA))>>,
                 <<SetTo(KeyB), FileWith(SetTo(KeyA))>>} :
          procEnv = e[1] /\ dotFile = e[2]
    /\ last = NoCall
    /\ prev = NoEarlier
    /\ netLog = <<>>
    /\ chain \in Chains
    /\ threads = NoThreads
    /\ SdkIdle
    /\ AsmIdle

AsmNext ==
    \/ AsmStart
    \/ \E ok \in BOOLEAN : QuoteReturns(ok)
    \/ \E response \in SwapInstructionsResponses \cup {NoResponse} :
          SwapInstructionsReturn(response)
    \/ \E rpcOk \in BOOLEAN : GetAccountReturns(rpcOk)
    \/ \E recent_blockhash \in {Ok(Rep(42, HashLen)), Err("ClientError")} :
          BlockhashReturns(recent_blockhash)
    \/ \E ok \in BOOLEAN : SendReturns(ok)

AsmSpec == AsmInit /\ [][AsmNext]_vars

-----------------------------------------------------------------------------
(* The assembler run more than once: swap_with_instructions builds its      *)
(* clients and all its lists anew on every call (swap.rs:84-90, 115, 140).  *)

Runs == Len(SelectSeq(netLog, LAMBDA r : r.call = "get_quote"))

\* The program is run again after a run has ended, against the chain as it
\* is by then; the process environment and the requests made stay.
AsmAgain(newChain) ==
    /\ pc \in {"done", "panicked"}
    /\ Runs < MaxRuns
    /\ pc' = "idle"
    /\ swapIx' = NoResponse
    /\ instructions' = <<>>
    /\ altQueue' = <<>>
    /\ alts' = <<>>
    /\ asmKeypair' = NoKeypair
    /\ compiled' = NotCompiled
    /\ asmPanic' = ""
    /\ chain' = newChain
    /\ UNCHANGED <<procEnv, dotFile, last, prev, netLog, threads, sdkVars>>

\* Responses that differ in their lookup-table addresses only.
LookupResponses ==
    {[received |-> TRUE,
      compute_budget_instructions |-> None,
      setup_instructions |-> <<>>,
      swap_instruction |-> Ix(20),
      cleanup_instruction |-> None,
      other_instructions |-> None,
      address_lookup_table_addresses |-> al] : al \in AltLists}

LookupNext ==
    \/ AsmStart
    \/ \E ok \in BOOLEAN : QuoteReturns(ok)
    \/ \E response \in LookupResponses \cup {NoResponse} :
          SwapInstructionsReturn(response)
    \/ \E rpcOk \in BOOLEAN : GetAccountReturns(rpcOk)
    \/ \E recent_blockhash \in {Ok(Rep(42, HashLen)), Err("ClientError")} :
          BlockhashReturns(recent_blockhash)
    \/ \E ok \in BOOLEAN : SendReturns(ok)
    \/ \E newChain \in Chains : AsmAgain(newChain)

LookupSpec == AsmInit /\ [][LookupNext]_vars

-----------------------------------------------------------------------------
(* Concurrent invocations.  The only state two invocations share is the     *)
(* process environment: dotenv() looks each variable of the file up and     *)
(* sets it when it is not set (two calls of std::env, not one atomic step), *)
(* and env::var reads it.  Everything after the key is read works on locals. *)

MaxThreads == 2

\* The outcome of the assembler's key loading (swap.rs:154-162) under the
\* environment env: the payer's address, or the panic.
AsmKeyOutcome(env) ==
    LET st == LoadKeypair([AsmState EXCEPT !.procEnv = env])
    IN  IF st.pc = "panicked" THEN Panicked(st.asmPanic)
        ELSE Returned(st.keypair.public)

\* An invocation that has not started: of sign_transaction(tx) ("sign") or
\* of swap_with_instructions at its key loading ("asm").
Invocation(fn, tx, env0) ==
    [fn |-> fn, tx |-> tx, env0 |-> env0, at |-> "start", wasSet |-> FALSE,
     key |-> Unset, out |-> [kind |-> "none", text |-> <<>>, msg |-> ""]]

\* dotenv(), first half: is the file's variable set already?
DotenvLooksUp(t) ==
    /\ threads[t].at = "start"
    /\ threads' = [threads EXCEPT ![t].at = "looked_up", ![t].wasSet = procEnv.set]
    /\ UNCHANGED <<procEnv, dotFile, last, prev, netLog, asmVars, sdkVars>>

\* dotenv(), second half: a variable found unset is set to the file's value.
DotenvSets(t) ==
    /\ threads[t].at = "looked_up"
    /\ procEnv' = IF dotFile.exists /\ dotFile.entry.set /\ ~threads[t].wasSet
                  THEN dotFile.entry ELSE procEnv
    /\ threads' = [threads EXCEPT ![t].at = "loaded"]
    /\ UNCHANGED <<dotFile, last, prev, netLog, asmVars, sdkVars>>

\* A faulty variant: the key is removed from the environment once it is read.
ReadKey_Scrub(t) ==
    /\ threads[t].at = "loaded"
    /\ threads' = [threads EXCEPT ![t].at = "read", ![t].key = procEnv]
    /\ procEnv' = Unset
    /\ UNCHANGED <<dotFile, last, prev, netLog, asmVars, sdkVars>>

\* env::var("PRIVATE_KEY")
ReadKey(t) ==
    /\ threads[t].at = "loaded"
    /\ threads' = [threads EXCEPT ![t].at = "read", ![t].key = procEnv]
    /\ UNCHANGED <<procEnv, dotFile, last, prev, netLog, asmVars, sdkVars>>

\* The rest of the invocation, on its locals.
Finish(t) ==
    /\ threads[t].at = "read"
    /\ threads' = [threads EXCEPT
           ![t].at = "done",
           ![t].out = IF threads[t].fn = "sign"
                      THEN sign_transaction(threads[t].tx, threads[t].key)
                      ELSE AsmKeyOutcome(threads[t].key)]
    /\ UNCHANGED <<procEnv, dotFile, last, prev, netLog, asmVars, sdkVars>>

ThreadInputs ==
    {<<"sign", Base64Encode(TxSerialize(e))>> :
        e \in {[signatures |-> ZeroSlots(1), message |-> m] : m \in Messages}}
    \cup {<<"sign", TxTruncated>>, <<"asm", <<>>>>}

ConcInit ==
    /\ procEnv \in EnvValues
    /\ dotFile \in DotFiles
    /\ last = NoCall
    /\ prev = NoEarlier
    /\ netLog = <<>>
    /\ chain = NoChain
    /\ SdkIdle
    /\ AsmIdle
    /\ \E f \in [1..MaxThreads -> ThreadInputs] :
          threads = [t \in 1..MaxThreads |-> Invocation(f[t][1], f[t][2], procEnv)]

ConcNext ==
    \E t \in 1..MaxThreads :
        \/ DotenvLooksUp(t)
        \/ DotenvSets(t)
        \/ ReadKey(t)
        \/ Finish(t)

ConcSpec == ConcInit /\ [][ConcNext]_vars

-----------------------------------------------------------------------------
(* JupiterClient (jup-ag-sdk/src/client.rs, client/*.rs, error.rs).  A URL   *)
(* and a body are sequences of text pieces; a StatusCode is its number.     *)

MaxCalls == 2    \* most API calls made on the client in one behaviour

DefaultHeaders ==
    ("Accept" :> "application/json") @@ ("Content-Type" :> "application/json")

\* A faulty variant: a trailing "/" of the base URL is dropped.
new_TrimSlash(base_url) ==
    [state |-> "built",
     base_url |-> IF base_url # <<>> /\ base_url[Len(base_url)] = "/"
                  THEN SubSeq(base_url, 1, Len(base_url) - 1) ELSE base_url,
     headers |-> DefaultHeaders]

\* client.rs:26-41  JupiterClient::new
new(base_url) ==
    [state |-> "built", base_url |-> base_url, headers |-> DefaultHeaders]

\* HeaderValue::from_str: the visible ASCII texts; a control character such
\* as a line break is refused.
ValidHeaderValue(text) == text \notin {"line\nbreak"}

\* client.rs:54-69  JupiterClient::with_api_key: the client is consumed; an
\* api key that is no header value makes the unwrap panic.
with_api_key(self, api_key) ==
    IF ~ValidHeaderValue(api_key) THEN [NoClient EXCEPT !.state = "panicked"]
    ELSE [state |-> "built",
          base_url |-> self.base_url,
          headers |-> ("x-api-key" :> api_key) @@ DefaultHeaders]

\* StatusCode::is_success
IsSuccess(status) == 200 <= status /\ status < 300

UnableText == <<"Unable to get error details">>

ApiError(text, status) == [variant |-> "ApiError", text |-> text, status |-> status]
RequestError == [variant |-> "RequestError", text |-> <<>>, status |-> 0]
DeserializationError(text) ==
    [variant |-> "DeserializationError", text |-> text, status |-> 0]

\* A faulty variant: only the 4xx and 5xx statuses are taken for failures.
handle_response_ClientAndServerErrorsOnly(response) ==
    IF response.status >= 400
    THEN Err(ApiError(IF response.readable THEN response.body ELSE UnableText,
                      response.status))
    ELSE Ok(response)

\* error.rs:18-28
handle_response(response) ==
    IF ~IsSuccess(response.status)
    THEN Err(ApiError(IF response.readable THEN response.body ELSE UnableText,
                      response.status))
    ELSE Ok(response)

\* A JSON body of the type ty, and response.json::<ty>(): the body must be
\* readable and be a JSON value of that type.
JsonOf(ty) == <<"{", ty, "}">>
Json(ty, response) ==
    IF ~response.readable THEN Err(<<"error decoding response body">>)
    ELSE IF response.body # JsonOf(ty) THEN Err(<<"error decoding response body">>)
    ELSE Ok([type |-> ty])

\* The API methods: each sends one request to base_url + path and reads the
\* response as its result type.
Endpoint(name, verb, path, returns) ==
    [name |-> name, verb |-> verb, path |-> path, returns |-> returns]

Endpoints ==
    {Endpoint("get_ultra_order", "GET", "/ultra/v1/order", "UltraOrderResponse"),
     Endpoint("ultra_execute_order", "POST", "/ultra/v1/execute",
              "UltraExecuteOrderResponse"),
     Endpoint("routers", "GET", "/ultra/v1/order/routers", "Vec<Router>"),
     Endpoint("create_recurring_order", "POST", "/recurring/v1/createOrder",
              "RecurringResponse"),
     Endpoint("execute_recurring_order", "POST", "/recurring/v1/execute",
              "ExecuteRecurringResponse"),
     Endpoint("create_trigger_order", "POST", "/trigger/v1/createOrder",
              "TriggerResponse"),
     Endpoint("execute_trigger_order", "POST", "/trigger/v1/execute",
              "ExecuteTriggerOrderResponse"),
     Endpoint("get_recent_tokens", "GET", "/tokens/v2/recent", "Vec<TokenInfo>")}

\* The token methods that take query parameters; path is the fixed part of
\* the URL.
QueryEndpoints ==
    {Endpoint("get_tokens_by_category", "GET", "/tokens/v2/", "Vec<TokenInfo>"),
     Endpoint("get_new_tokens", "GET", "/tokens/v1/new", "Vec<NewTokens>"),
     Endpoint("get_token_price", "GET", "/price/v2", "TokenPriceResponse")}

NoEndpoint == Endpoint("", "", "", "")
EndpointOf(name) ==
    IF \E m \in Endpoints \cup QueryEndpoints : m.name = name
    THEN CHOOSE m \in Endpoints \cup QueryEndpoints : m.name = name
    ELSE NoEndpoint

\* What the network answers: no response at all, or a response with a
\* status and a body that may fail to be read.
TransportFailure == [kind |-> "transport", status |-> 0, body |-> <<>>,
                     readable |-> FALSE]
Response(status, body, readable) ==
    [kind |-> "response", status |-> status, body |-> body, readable |-> readable]

Statuses == {199, 200, 299, 300, 404, 500}

Replies(m) ==
    {TransportFailure}
    \cup {Response(st, b, TRUE) :
            st \in Statuses, b \in {JsonOf(m.returns), JsonOf("error"), <<"<html>">>}}
    \cup {Response(st, <<>>, FALSE) : st \in {200, 404}}

\* A faulty variant: the body is parsed before the status is looked at.
Outcome_ParseFirst(m, reply) ==
    IF reply.kind = "transport" THEN Err(RequestError)
    ELSE LET value == Json(m.returns, reply) IN
    IF value.ok THEN value
    ELSE LET response == handle_response(reply) IN
    IF ~response.ok THEN response ELSE Err(DeserializationError(value.err))

\* The body of every API method after the request is sent: RequestError when
\* sending failed, else handle_response(response)?, else the parsed body or
\* DeserializationError.
Outcome(m, reply) ==
    IF reply.kind = "transport" THEN Err(RequestError)
    ELSE LET response == handle_response(reply) IN
    IF ~response.ok THEN response
    ELSE LET value == Json(m.returns, response.val) IN
    IF value.ok THEN value ELSE Err(DeserializationError(value.err))

HttpRequest(m, c) ==
    Request(m.name, [verb |-> m.verb, url |-> c.base_url \o <<m.path>>,
                     headers |-> c.headers])

\* let client = JupiterClient::new(base_url)
New(base_url) ==
    /\ client.state = "none"
    /\ client' = new(base_url)
    /\ given' = base_url
    /\ UNCHANGED <<procEnv, dotFile, last, prev, netLog, asmVars, threads, api,
                   reqVars, flows>>

\* let client = client.with_api_key(api_key)
WithApiKey(api_key) ==
    /\ client.state = "built"
    /\ api.at = "idle"
    /\ client' = with_api_key(client, api_key)
    /\ UNCHANGED <<procEnv, dotFile, last, prev, netLog, asmVars, threads, given,
                   api, reqVars, flows>>

\* client.<method>(..): the request is built and sent, the call awaits.
Send(m) ==
    /\ client.state = "built"
    /\ api.at = "idle"
    /\ api.calls < MaxCalls
    /\ netLog' = Append(netLog, HttpRequest(m, client))
    /\ api' = [at |-> "sent", calls |-> api.calls + 1, method |-> m.name,
               reply |-> <<>>, result |-> <<>>]
    /\ UNCHANGED <<procEnv, dotFile, last, prev, asmVars, threads, client, given,
                   reqVars, flows>>

\* A faulty variant: a request that could not be sent is sent once more.
Receive_Retry(reply) ==
    /\ api.at = "sent"
    /\ IF reply.kind = "transport"
       THEN /\ netLog' = Append(netLog, HttpRequest(EndpointOf(api.method), client))
            /\ api' = api
       ELSE /\ netLog' = netLog
            /\ api' = [api EXCEPT !.at = "idle", !.reply = reply,
                                  !.result = Outcome(EndpointOf(api.method), reply)]
    /\ UNCHANGED <<procEnv, dotFile, last, prev, asmVars, threads, client, given,
                   reqVars, flows>>

\* The answer arrives and the method returns.
Receive(reply) ==
    /\ api.at = "sent"
    /\ api' = [api EXCEPT !.at = "idle", !.reply = reply,
                          !.result = Outcome(EndpointOf(api.method), reply)]
    /\ UNCHANGED <<procEnv, dotFile, last, prev, netLog, asmVars, threads,
                   client, given, reqVars, flows>>

BaseUrls == {<<"https://lite-api.jup.ag">>,
             <<"https://api.jup.ag", "/">>,
             <<"https://lite-api.jup.ag", "/invalid">>}

ApiKeys == {"your-api-key", "line\nbreak"}

ClientInit ==
    /\ procEnv = Unset
    /\ dotFile = NoFile
    /\ last = NoCall
    /\ prev = NoEarlier
    /\ netLog = <<>>
    /\ chain = NoChain
    /\ threads = NoThreads
    /\ SdkIdle
    /\ AsmIdle

ClientNext ==
    \/ \E base_url \in BaseUrls : New(base_url)
    \/ \E api_key \in ApiKeys : WithApiKey(api_key)
    \/ \E m \in Endpoints : Send(m)
    \/ \E reply \in Replies(EndpointOf(api.method)) : Receive(reply)

ClientSpec == ClientInit /\ [][ClientNext]_vars

-----------------------------------------------------------------------------
(* UltraOrderRequest and its builder (jup-ag-sdk/src/types/ultra.rs).       *)

MaxSetters == 3  \* most setter calls made on one request

\* Option<String> and Option<u8> without a value.
NoText == [some |-> FALSE, val |-> ""]
NoNumber == [some |-> FALSE, val |-> 0]

\* ultra.rs:62-72  UltraOrderRequest::new
UltraOrderRequest_new(input_mint, output_mint, amount) ==
    [state |-> "built",
     input_mint |-> input_mint,
     output_mint |-> output_mint,
     amount |-> amount,
     taker |-> NoText,
     referral_account |-> NoText,
     referral_fee |-> NoNumber,
     exclude_routers |-> None]

\* ultra.rs:86-89
add_taker(self, taker) == [self EXCEPT !.taker = Some(taker)]

\* ultra.rs:106-109
add_referral_account(self, referral_account) ==
    [self EXCEPT !.referral_account = Some(referral_account)]

\* A faulty variant: a fee of exactly 50 is refused too.
add_referral_fee_Above50(self, fee) ==
    IF fee <= 50 THEN [state |-> "panicked"]
    ELSE [self EXCEPT !.referral_fee = Some(fee)]

\* ultra.rs:129-133: the assert panics on a fee below 50 and the request,
\* moved into the call, is gone.  fee is a u8: 0..255.
add_referral_fee(self, fee) ==
    IF fee < 50 THEN [state |-> "panicked"]
    ELSE [self EXCEPT !.referral_fee = Some(fee)]

\* A faulty variant: the routers are added to those excluded before.
exclude_routers_Extend(self, routers) ==
    [self EXCEPT !.exclude_routers = Some(OptList(@) \o routers)]

\* ultra.rs:153-156
exclude_routers(self, routers) ==
    [self EXCEPT !.exclude_routers = Some(routers)]

SetterCall(setter, arg) == [setter |-> setter, arg |-> arg]

Built(request, setter, arg) ==
    /\ ultraReq' = request
    /\ setters' = Append(setters, SetterCall(setter, arg))
    /\ UNCHANGED <<procEnv, dotFile, last, prev, netLog, asmVars, threads,
                   client, given, api, triggerReq, priceReq, recurringReq, flows>>

CanSet == ultraReq.state = "built" /\ Len(setters) <= MaxSetters

UltraNew(input_mint, output_mint, amount) ==
    /\ ultraReq.state = "none"
    /\ Built(UltraOrderRequest_new(input_mint, output_mint, amount),
             "new", <<input_mint, output_mint, amount>>)

AddTaker(taker) ==
    /\ CanSet
    /\ Built(add_taker(ultraReq, taker), "add_taker", taker)

AddReferralAccount(referral_account) ==
    /\ CanSet
    /\ Built(add_referral_account(ultraReq, referral_account),
             "add_referral_account", referral_account)

AddReferralFee(fee) ==
    /\ CanSet
    /\ Built(add_referral_fee(ultraReq, fee), "add_referral_fee", fee)

ExcludeRouters(routers) ==
    /\ CanSet
    /\ Built(exclude_routers(ultraReq, routers), "exclude_routers", routers)

Mints == {"So11111111111111111111111111111111111111112",
          "JUPyiwrYJFskUPiHa7hkeR8VUtAeFoSYbKedZNsDvCN"}
Amounts == {0, 1000000000}
Accounts == {"EXBdeRCdiNChKyD7akt64n9HgSXEpUtpPEhmbnm4L6iH", "invalid taker"}
Fees == {0, 49, 50, 100, 255}
RouterLists == {<<>>, <<"metis">>, <<"jupiterz", "okx">>}

BuilderInit == ClientInit

BuilderNext ==
    \/ \E i \in Mints, o \in Mints, a \in Amounts : UltraNew(i, o, a)
    \/ \E taker \in Accounts : AddTaker(taker)
    \/ \E referral_account \in Accounts : AddReferralAccount(referral_account)
    \/ \E fee \in Fees : AddReferralFee(fee)
    \/ \E routers \in RouterLists : ExcludeRouters(routers)

BuilderSpec == BuilderInit /\ [][BuilderNext]_vars

-----------------------------------------------------------------------------
(* CreateTriggerOrder and its builder (jup-ag-sdk/src/types/trigger.rs).    *)
(* A decimal text is the sequence of its digit characters.                  *)

NoFlag == [some |-> FALSE, val |-> FALSE]

Digits == <<"0", "1", "2", "3", "4", "5", "6", "7", "8", "9">>

\* u64::to_string: the decimal digits, most significant first, no padding.
RECURSIVE u64_to_string(_)
u64_to_string(n) ==
    IF n < 10 THEN <<Digits[n + 1]>>
    ELSE u64_to_string(n \div 10) \o <<Digits[(n % 10) + 1]>>

\* A faulty variant: the two amounts change places.
Params_new_Swapped(making_amount, taking_amount) ==
    [making_amount |-> u64_to_string(taking_amount),
     taking_amount |-> u64_to_string(making_amount),
     expired_at |-> NoText,
     slippage_bps |-> NoText,
     fee_bps |-> NoText]

\* trigger.rs:129-137  Params::new
Params_new(making_amount, taking_amount) ==
    [making_amount |-> u64_to_string(making_amount),
     taking_amount |-> u64_to_string(taking_amount),
     expired_at |-> NoText,
     slippage_bps |-> NoText,
     fee_bps |-> NoText]

\* trigger.rs:68-86  CreateTriggerOrder::new
CreateTriggerOrder_new(input_mint, output_mint, maker, payer, making_amount, taking_amount) ==
    [state |-> "built",
     input_mint |-> input_mint,
     output_mint |-> output_mint,
     maker |-> maker,
     payer |-> payer,
     params |-> Params_new(making_amount, taking_amount),
     compute_unit_price |-> NoText,
     fee_account |-> NoText,
     wrap_and_unwrap_sol |-> NoFlag]

\* trigger.rs:90-93
compute_unit_price(self, price) == [self EXCEPT !.compute_unit_price = Some(price)]

\* trigger.rs:96-99
fee_account(self, account) == [self EXCEPT !.fee_account = Some(account)]

\* trigger.rs:102-105
wrap_and_unwrap_sol(self, wrap) == [self EXCEPT !.wrap_and_unwrap_sol = Some(wrap)]

\* trigger.rs:108-111
expired_at(self, at) == [self EXCEPT !.params.expired_at = Some(at)]

\* trigger.rs:115-118
slippage_bps(self, slippage) == [self EXCEPT !.params.slippage_bps = Some(slippage)]

\* trigger.rs:121-124: the fee is stored whether or not a fee account is set.
fee_bps(self, fee) == [self EXCEPT !.params.fee_bps = Some(fee)]

TriggerBuilt(request, setter, arg) ==
    /\ triggerReq' = request
    /\ setters' = Append(setters, SetterCall(setter, arg))
    /\ UNCHANGED <<procEnv, dotFile, last, prev, netLog, asmVars, threads,
                   client, given, api, ultraReq, priceReq, recurringReq, flows>>

CanSetTrigger == triggerReq.state = "built" /\ Len(setters) <= MaxSetters

TriggerNew(a) ==
    /\ triggerReq.state = "none"
    /\ TriggerBuilt(CreateTriggerOrder_new(a[1], a[2], a[3], a[4], a[5], a[6]),
                    "new", a)

ComputeUnitPrice(price) ==
    /\ CanSetTrigger
    /\ TriggerBuilt(compute_unit_price(triggerReq, price), "compute_unit_price", price)

FeeAccount(account) ==
    /\ CanSetTrigger
    /\ TriggerBuilt(fee_account(triggerReq, account), "fee_account", account)

WrapAndUnwrapSol(wrap) ==
    /\ CanSetTrigger
    /\ TriggerBuilt(wrap_and_unwrap_sol(triggerReq, wrap), "wrap_and_unwrap_sol", wrap)

ExpiredAt(at) ==
    /\ CanSetTrigger
    /\ TriggerBuilt(expired_at(triggerReq, at), "expired_at", at)

SlippageBps(slippage) ==
    /\ CanSetTrigger
    /\ TriggerBuilt(slippage_bps(triggerReq, slippage), "slippage_bps", slippage)

FeeBps(fee) ==
    /\ CanSetTrigger
    /\ TriggerBuilt(fee_bps(triggerReq, fee), "fee_bps", fee)

\* The arguments of CreateTriggerOrder::new: mints, maker, payer, amounts.
TriggerOrders ==
    {<<"So11111111111111111111111111111111111111112",
       "JUPyiwrYJFskUPiHa7hkeR8VUtAeFoSYbKedZNsDvCN",
       "EXBdeRCdiNChKyD7akt64n9HgSXEpUtpPEhmbnm4L6iH",
       "372sKPyyiwU5zYASHzqvYY48Sv4ihEujfN5rGFKhVQ9j",
       1000000000, 200000000>>,
     <<"JUPyiwrYJFskUPiHa7hkeR8VUtAeFoSYbKedZNsDvCN",
       "So11111111111111111111111111111111111111112",
       "372sKPyyiwU5zYASHzqvYY48Sv4ihEujfN5rGFKhVQ9j",
       "EXBdeRCdiNChKyD7akt64n9HgSXEpUtpPEhmbnm4L6iH",
       0, 2147483647>>,
     <<"So11111111111111111111111111111111111111112",
       "So11111111111111111111111111111111111111112",
       "invalid maker", "", 1050, 9>>}

Prices == {"auto", "1000"}
Times == {"1748622171", ""}
BpsTexts == {"0", "50"}

TriggerInit == ClientInit

TriggerNext ==
    \/ \E a \in TriggerOrders : TriggerNew(a)
    \/ \E price \in Prices : ComputeUnitPrice(price)
    \/ \E account \in Accounts : FeeAccount(account)
    \/ \E wrap \in BOOLEAN : WrapAndUnwrapSol(wrap)
    \/ \E at \in Times : ExpiredAt(at)
    \/ \E slippage \in BpsTexts : SlippageBps(slippage)
    \/ \E fee \in BpsTexts : FeeBps(fee)

TriggerSpec == TriggerInit /\ [][TriggerNext]_vars

-----------------------------------------------------------------------------
(* The token methods with query parameters (client/token_api.rs).  In a URL *)
(* the marks "?" and "&" are pieces of their own, a number is its digits.   *)

MaxQueries == 1  \* most calls of a token method in one behaviour

\* types/token.rs:111-120  Display for Category
Category_fmt(category) ==
    CASE category = "TopOrganicScore" -> "toporganicscore"
      [] category = "TopTraded" -> "toptraded"
      [] category = "TopTrending" -> "toptrending"

\* types/token.rs:130-140  Display for Interval
Interval_fmt(interval) ==
    CASE interval = "FiveMinutes" -> "5m"
      [] interval = "OneHour" -> "1h"
      [] interval = "SixHours" -> "6h"
      [] interval = "TwentyFourHours" -> "24h"

\* token_api.rs:130-136: the request get_tokens_by_category builds; limit is
\* an Option<u8> and is passed on as it comes.
get_tokens_by_category(self, category, interval, limit) ==
    [verb |-> "GET",
     url |-> self.base_url
             \o <<"/tokens/v2/", Category_fmt(category), "/", Interval_fmt(interval)>>,
     query |-> IF limit.some THEN <<<<"limit", limit.val>>>> ELSE <<>>,
     headers |-> self.headers]

\* str::contains('?')
ContainsMark(url) == \E i \in 1..Len(url) : url[i] = "?"

\* A faulty variant: the offset is always introduced by "?".
get_new_tokens_AlwaysMark(self, limit, offset) ==
    LET url0 == self.base_url \o <<"/tokens/v1/new">>
        url1 == IF limit.some
                THEN url0 \o <<"?", "limit=">> \o u64_to_string(limit.val) ELSE url0
        url2 == IF offset.some
                THEN url1 \o <<"?", "offset=">> \o u64_to_string(offset.val) ELSE url1
    IN  [verb |-> "GET", url |-> url2, query |-> <<>>, headers |-> self.headers]

\* token_api.rs:330-341: the request get_new_tokens builds.
get_new_tokens(self, limit, offset) ==
    LET url0 == self.base_url \o <<"/tokens/v1/new">>
        url1 == IF limit.some
                THEN url0 \o <<"?", "limit=">> \o u64_to_string(limit.val) ELSE url0
        url2 == IF offset.some
                THEN IF ContainsMark(url1)
                     THEN url1 \o <<"&", "offset=">> \o u64_to_string(offset.val)
                     ELSE url1 \o <<"?", "offset=">> \o u64_to_string(offset.val)
                ELSE url1
    IN  [verb |-> "GET", url |-> url2, query |-> <<>>, headers |-> self.headers]

\* client.<token method>(..): the request is built and sent, the call awaits.
SendQuery(name, args, request) ==
    /\ client.state = "built"
    /\ api.at = "idle"
    /\ api.calls < MaxQueries
    /\ netLog' = Append(netLog, Request(name, request))
    /\ api' = [at |-> "sent", calls |-> api.calls + 1, method |-> name,
               args |-> args, reply |-> <<>>, result |-> <<>>]
    /\ UNCHANGED <<procEnv, dotFile, last, prev, asmVars, threads, client, given,
                   reqVars, flows>>

GetTokensByCategory(category, interval, limit) ==
    SendQuery("get_tokens_by_category", <<category, interval, limit>>,
              get_tokens_by_category(client, category, interval, limit))

GetNewTokens(limit, offset) ==
    SendQuery("get_new_tokens", <<limit, offset>>,
              get_new_tokens(client, limit, offset))

Categories == {"TopOrganicScore", "TopTraded", "TopTrending"}
Intervals == {"FiveMinutes", "OneHour", "SixHours", "TwentyFourHours"}

\* Option<u8> limits of get_tokens_by_category.
Limits == {NoNumber, Some(0), Some(1), Some(50), Some(100), Some(101), Some(255)}

\* Option<u64> limits and offsets of get_new_tokens.
Counts == {NoNumber, Some(0), Some(25)}

TokenBaseUrls == {<<"https://lite-api.jup.ag">>,
                  <<"https://proxy.example/fetch", "?", "target=jup">>}

TokenReplies(m) ==
    {TransportFailure, Response(200, JsonOf(m.returns), TRUE),
     Response(429, <<"Too Many Requests">>, TRUE)}

TokenInit == ClientInit

TokenNext ==
    \/ \E base_url \in TokenBaseUrls : New(base_url)
    \/ \E api_key \in ApiKeys : WithApiKey(api_key)
    \/ \E category \in Categories, interval \in Intervals, limit \in Limits :
          GetTokensByCategory(category, interval, limit)
    \/ \E limit \in Counts, offset \in Counts : GetNewTokens(limit, offset)
    \/ \E reply \in TokenReplies(EndpointOf(api.method)) : Receive(reply)

TokenSpec == TokenInit /\ [][TokenNext]_vars

-----------------------------------------------------------------------------
(* TokenPriceRequest (jup-ag-sdk/src/types/token.rs) and get_token_price.   *)
(* A serialized text is the sequence of its pieces, "," a piece of its own. *)

MaxMints == 2    \* most mints of one TokenPriceRequest

\* token.rs:22-28  TokenPriceRequest::new
TokenPriceRequest_new(token_mints) ==
    [state |-> "built",
     token_mints |-> token_mints,
     vs_token |-> NoText,
     show_extra_info |-> NoFlag]

\* token.rs:32-35
with_vs_token(self, vs_token) == [self EXCEPT !.vs_token = Some(vs_token)]

\* token.rs:38-41
with_show_extra_info(self, show_extra_info) ==
    [self EXCEPT !.show_extra_info = Some(show_extra_info)]

\* [String]::join(sep)
RECURSIVE Join(_, _)
Join(vec, sep) ==
    IF vec = <<>> THEN <<>>
    ELSE IF Len(vec) = 1 THEN <<vec[1]>>
    ELSE <<Head(vec), sep>> \o Join(Tail(vec), sep)

\* A faulty variant: the mints are joined by a comma and a blank.
to_comma_string_Spaced(vec) == Join(vec, ", ")

\* token.rs:65-70  to_comma_string
to_comma_string(vec) == Join(vec, ",")

\* The derived Serialize of TokenPriceRequest (token.rs:5-19) as a query: ids
\* through to_comma_string; an Option that is None gives no pair.
TokenPriceRequest_serialize(self) ==
    <<<<"ids", to_comma_string(self.token_mints)>>>>
    \o (IF self.vs_token.some THEN <<<<"vsToken", <<self.vs_token.val>>>>>> ELSE <<>>)
    \o (IF self.show_extra_info.some
        THEN <<<<"showExtraInfo", <<IF self.show_extra_info.val THEN "true" ELSE "false">>>>>>
        ELSE <<>>)

\* token_api.rs:236-240: the request get_token_price builds.
get_token_price(self, params) ==
    [verb |-> "GET",
     url |-> self.base_url \o <<"/price/v2">>,
     query |-> TokenPriceRequest_serialize(params),
     headers |-> self.headers]

PriceBuilt(request, setter, arg) ==
    /\ priceReq' = request
    /\ setters' = Append(setters, SetterCall(setter, arg))
    /\ UNCHANGED <<procEnv, dotFile, last, prev, netLog, asmVars, threads,
                   client, given, api, ultraReq, triggerReq, recurringReq, flows>>

CanSetPrice == priceReq.state = "built" /\ Len(setters) <= MaxSetters

PriceNew(token_mints) ==
    /\ priceReq.state = "none"
    /\ PriceBuilt(TokenPriceRequest_new(token_mints), "new", token_mints)

WithVsToken(vs_token) ==
    /\ CanSetPrice
    /\ PriceBuilt(with_vs_token(priceReq, vs_token), "with_vs_token", vs_token)

WithShowExtraInfo(show_extra_info) ==
    /\ CanSetPrice
    /\ PriceBuilt(with_show_extra_info(priceReq, show_extra_info),
                  "with_show_extra_info", show_extra_info)

GetTokenPrice ==
    /\ priceReq.state = "built"
    /\ SendQuery("get_token_price", priceReq, get_token_price(client, priceReq))

\* The mint lists: every list of at most MaxMints mints, repeats included.
MintLists ==
    UNION {[1..n -> Mints] : n \in 0..MaxMints}

PriceInit == ClientInit

PriceNext ==
    \/ New(<<"https://lite-api.jup.ag">>)
    \/ \E token_mints \in MintLists : PriceNew(token_mints)
    \/ \E vs_token \in Mints : WithVsToken(vs_token)
    \/ \E show_extra_info \in BOOLEAN : WithShowExtraInfo(show_extra_info)
    \/ GetTokenPrice
    \/ \E reply \in TokenReplies(EndpointOf(api.method)) : Receive(reply)

PriceSpec == PriceInit /\ [][PriceNext]_vars

-----------------------------------------------------------------------------
(* CreateRecurringOrderRequest (jup-ag-sdk/src/types/recurring.rs).  An f64 *)
(* price is stored as it is given; the model takes whole numbers for it.    *)

\* recurring.rs:73-95  new_time_order
new_time_order(user, input_mint, output_mint, in_amount, number_of_orders, interval) ==
    [state |-> "built",
     user |-> user,
     input_mint |-> input_mint,
     output_mint |-> output_mint,
     params |-> [variant |-> "TimeWrapper",
                 time |-> [in_amount |-> in_amount,
                           number_of_orders |-> number_of_orders,
                           interval |-> interval,
                           min_price |-> NoNumber,
                           max_price |-> NoNumber,
                           start_at |-> NoNumber]]]

\* recurring.rs:107-128  new_price_order
new_price_order(user, input_mint, output_mint, deposit_amount, increment_usdc_value, interval) ==
    [state |-> "built",
     user |-> user,
     input_mint |-> input_mint,
     output_mint |-> output_mint,
     params |-> [variant |-> "PriceWrapper",
                 price |-> [deposit_amount |-> deposit_amount,
                            increment_usdc_value |-> increment_usdc_value,
                            interval |-> interval,
                            start_at |-> NoNumber]]]

\* A faulty variant: only a time-based order gets its start.
with_start_at_TimeOnly(self, start_at) ==
    IF self.params.variant = "TimeWrapper"
    THEN [self EXCEPT !.params.time.start_at = Some(start_at)]
    ELSE self

\* recurring.rs:131-137
with_start_at(self, start_at) ==
    IF self.params.variant = "TimeWrapper"
    THEN [self EXCEPT !.params.time.start_at = Some(start_at)]
    ELSE [self EXCEPT !.params.price.start_at = Some(start_at)]

\* recurring.rs:140-145
with_min_price(self, price) ==
    IF self.params.variant = "TimeWrapper"
    THEN [self EXCEPT !.params.time.min_price = Some(price)]
    ELSE self

\* recurring.rs:148-153
with_max_price(self, price) ==
    IF self.params.variant = "TimeWrapper"
    THEN [self EXCEPT !.params.time.max_price = Some(price)]
    ELSE self

RecurringBuilt(request, setter, arg) ==
    /\ recurringReq' = request
    /\ setters' = Append(setters, SetterCall(setter, arg))
    /\ UNCHANGED <<procEnv, dotFile, last, prev, netLog, asmVars, threads,
                   client, given, api, ultraReq, triggerReq, priceReq, flows>>

CanSetRecurring == recurringReq.state = "built" /\ Len(setters) <= MaxSetters

NewTimeOrder(a) ==
    /\ recurringReq.state = "none"
    /\ RecurringBuilt(new_time_order(a[1], a[2], a[3], a[4], a[5], a[6]),
                      "new_time_order", a)

NewPriceOrder(a) ==
    /\ recurringReq.state = "none"
    /\ RecurringBuilt(new_price_order(a[1], a[2], a[3], a[4], a[5], a[6]),
                      "new_price_order", a)

WithStartAt(start_at) ==
    /\ CanSetRecurring
    /\ RecurringBuilt(with_start_at(recurringReq, start_at), "with_start_at", start_at)

WithMinPrice(price) ==
    /\ CanSetRecurring
    /\ RecurringBuilt(with_min_price(recurringReq, price), "with_min_price", price)

WithMaxPrice(price) ==
    /\ CanSetRecurring
    /\ RecurringBuilt(with_max_price(recurringReq, price), "with_max_price", price)

\* The arguments of the constructors: user, mints and three amounts.
RecurringOrders ==
    {<<"EXBdeRCdiNChKyD7akt64n9HgSXEpUtpPEhmbnm4L6iH",
       "EPjFWdd5AufqSSqeM2qN1xzybapC8G4wEGGkZwyTDt1v",
       "So11111111111111111111111111111111111111112",
       1000000000, 10, 84600>>,
     <<"your wallet address",
       "So11111111111111111111111111111111111111112",
       "EPjFWdd5AufqSSqeM2qN1xzybapC8G4wEGGkZwyTDt1v",
       0, 100, 86400>>}

StartTimes == {0, 1748622171}
PriceLevels == {0, 150, 200}

RecurringInit == ClientInit

RecurringNext ==
    \/ \E a \in RecurringOrders : NewTimeOrder(a)
    \/ \E a \in RecurringOrders : NewPriceOrder(a)
    \/ \E start_at \in StartTimes : WithStartAt(start_at)
    \/ \E price \in PriceLevels : WithMinPrice(price)
    \/ \E price \in PriceLevels : WithMaxPrice(price)

RecurringSpec == RecurringInit /\ [][RecurringNext]_vars

-----------------------------------------------------------------------------
(* The example programs that sign a transaction they were handed            *)
(* (examples/src/ultra.rs, trigger.rs, recurring.rs, swap.rs, lib.rs).      *)

MaxFlows == 2    \* most runs of example programs in one behaviour

NoTx == [signatures |-> <<>>, message |-> <<>>]

\* How the signing stretch of an example ends: with the signed envelope, or
\* in a panic; env is the process environment it leaves behind.
Signed(tx, env) == [kind |-> "signed", msg |-> "", tx |-> tx, env |-> env]
SignPanic(msg, env) == [kind |-> "panic", msg |-> msg, tx |-> NoTx, env |-> env]
NotSigned == [kind |-> "none", msg |-> "", tx |-> NoTx, env |-> Unset]

\* env::var("PRIVATE_KEY") .. Keypair::from_bytes, as in trigger.rs:41-48,
\* with env the process environment after dotenv().
LoadKey(env) ==
    IF ~env.set THEN Err("PRIVATE_KEY not set in .env")
    ELSE LET key_bytes == Base58Decode(env.val) IN
    IF ~key_bytes.ok THEN Err("Failed to decode base58 private key")
    ELSE LET keypair == KeypairFromBytes(key_bytes.val) IN
    IF ~keypair.ok THEN Err("Failed to create Keypair") ELSE keypair

\* STANDARD.decode(..).expect(..) and deserialize(..).unwrap(), as in
\* trigger.rs:50-54.
DecodeTx(transaction) ==
    LET swap_tx_bytes == Base64Decode(transaction) IN
    IF ~swap_tx_bytes.ok THEN Err("Failed to decode base64 transaction")
    ELSE LET tx == TxDeserialize(swap_tx_bytes.val) IN
    IF ~tx.ok THEN Err("called Result::unwrap() on an Err value") ELSE tx

\* ultra.rs:53-59
ultra_inject(signatures, signature) ==
    IF signatures = <<>> THEN Ok(Append(signatures, signature))
    ELSE Ok([signatures EXCEPT ![1] = signature])

\* trigger.rs:60-64
trigger_inject(signatures, signature) ==
    IF signatures = <<>> THEN Ok(Append(signatures, signature))
    ELSE Ok([signatures EXCEPT ![1] = signature])

\* swap.rs:70-76
swap_inject(signatures, signature) ==
    IF signatures = <<>> THEN Ok(Append(signatures, signature))
    ELSE Ok([signatures EXCEPT ![1] = signature])

\* recurring.rs:53  tx.signatures[0] = signature: indexing an empty list
\* panics.
recurring_inject(signatures, signature) ==
    IF signatures = <<>>
    THEN Err("index out of bounds: the len is 0 but the index is 0")
    ELSE Ok([signatures EXCEPT ![1] = signature])

\* The slot policy of each example.
Inject(fn, signatures, signature) ==
    CASE fn = "ultra" -> ultra_inject(signatures, signature)
      [] fn = "trigger" -> trigger_inject(signatures, signature)
      [] fn = "recurring" -> recurring_inject(signatures, signature)
      [] fn = "swap" -> swap_inject(signatures, signature)

\* The message is signed and the signature put into the envelope.
SignInto(fn, tx, keypair, env) ==
    LET signature == sign_message(keypair, SignedBytes(tx))
        signatures == Inject(fn, tx.signatures, signature)
    IN  IF ~signatures.ok THEN SignPanic(signatures.err, env)
        ELSE Signed([tx EXCEPT !.signatures = signatures.val], env)

\* The key is loaded, then the transaction decoded, signed and filled in.
KeyFirst(fn, transaction, env0, file) ==
    LET env == Dotenv(env0, file)
        keypair == LoadKey(env)
    IN  IF ~keypair.ok THEN SignPanic(keypair.err, env)
        ELSE LET tx == DecodeTx(transaction) IN
        IF ~tx.ok THEN SignPanic(tx.err, env)
        ELSE SignInto(fn, tx.val, keypair.val, env)

\* ultra.rs:33-59: the transaction is decoded before the key is loaded.
ultra_sign(transaction, env0, file) ==
    LET tx == DecodeTx(transaction) IN
    IF ~tx.ok THEN SignPanic(tx.err, env0)
    ELSE LET env == Dotenv(env0, file)
             keypair == LoadKey(env)
         IN  IF ~keypair.ok THEN SignPanic(keypair.err, env)
             ELSE SignInto("ultra", tx.val, keypair.val, env)

\* trigger.rs:38-64
trigger_sign(transaction, env0, file) == KeyFirst("trigger", transaction, env0, file)

\* recurring.rs:33-53
recurring_sign(transaction, env0, file) ==
    KeyFirst("recurring", transaction, env0, file)

\* swap.rs:46-76
swap_sign(transaction, env0, file) == KeyFirst("swap", transaction, env0, file)

\* What sign_transaction returned, seen the same way: the envelope its text
\* holds.
SignedText(out, env) ==
    IF out.kind = "panic" THEN SignPanic(out.msg, env)
    ELSE Signed(TxDeserialize(Base64Decode(out.text).val).val, env)

\* lib.rs:37-81
lib_sign(transaction, env0, file) ==
    SignedText(sign_transaction(transaction, Dotenv(env0, file)), Dotenv(env0, file))

\* serialize(&tx).unwrap() and STANDARD.encode, as in trigger.rs:66-67.
EncodeTx(tx) == Base64Encode(TxSerialize(tx))

\* The order and the execute method of an order-then-execute example, and
\* the texts of its two expects.
FlowOf(fn) ==
    CASE fn = "ultra" ->
            [order |-> "get_ultra_order", execute |-> "ultra_execute_order",
             orderFailed |-> "Failed to get ultra order",
             executeFailed |-> "Failed to execute transaction"]
      [] fn = "trigger" ->
            [order |-> "create_trigger_order", execute |-> "execute_trigger_order",
             orderFailed |-> "Failed to create trigger order",
             executeFailed |-> "Failed to execute trigger order"]
      [] fn = "recurring" ->
            [order |-> "create_recurring_order", execute |-> "execute_recurring_order",
             orderFailed |-> "Failed to create recurring order",
             executeFailed |-> "Failed to execute recurring order"]
      [] OTHER -> [order |-> "", execute |-> "", orderFailed |-> "",
                   executeFailed |-> ""]

OrderFlows == {"ultra", "trigger", "recurring"}

\* let client = JupiterClient::new("https://lite-api.jup.ag")
FlowClient == new(<<"https://lite-api.jup.ag">>)

\* What the order method returns for a reply whose body, when it is one of
\* the result type, holds a request id and perhaps a transaction.
\* UltraOrderResponse.transaction is an Option (ultra.rs:201),
\* TriggerResponse.transaction defaults to the empty text (trigger.rs:165-166),
\* RecurringResponse.transaction is required (recurring.rs:255).
OrderResult(fn, reply, content) ==
    LET result == Outcome(EndpointOf(FlowOf(fn).order), reply) IN
    IF ~result.ok THEN result
    ELSE IF fn = "recurring" /\ ~content.transaction.some
    THEN Err(DeserializationError(<<"missing field transaction">>))
    ELSE Ok([request_id |-> content.request_id,
             transaction |-> IF fn = "ultra" THEN content.transaction
                             ELSE Some(OptList(content.transaction))])

\* The signing stretch of each order-then-execute example.
FlowSign(fn, transaction, env0, file) ==
    CASE fn = "ultra" -> ultra_sign(transaction, env0, file)
      [] fn = "trigger" -> trigger_sign(transaction, env0, file)
      [] fn = "recurring" -> recurring_sign(transaction, env0, file)

\* A faulty variant: the transaction is passed on as it came, unsigned.
ExecuteRequest_Unsigned(fn, order, tx) ==
    Request(FlowOf(fn).execute,
            [verb |-> "POST",
             url |-> FlowClient.base_url \o <<EndpointOf(FlowOf(fn).execute).path>>,
             headers |-> FlowClient.headers,
             body |-> [request_id |-> order.request_id,
                       signed_transaction |-> order.transaction.val]])

\* ultra.rs:61-72, trigger.rs:66-76, recurring.rs:55-64: the execute request.
ExecuteRequest(fn, order, tx) ==
    Request(FlowOf(fn).execute,
            [verb |-> "POST",
             url |-> FlowClient.base_url \o <<EndpointOf(FlowOf(fn).execute).path>>,
             headers |-> FlowClient.headers,
             body |-> [request_id |-> order.request_id,
                       signed_transaction |-> EncodeTx(tx)]])

\* A run of an example: where it is, the order it got, the transaction and
\* the process environment its signing stretch began with, how that ended.
Run(fn, at, start) ==
    [fn |-> fn, at |-> at, start |-> start, request_id |-> "", hasTx |-> FALSE,
     transaction |-> <<>>, env0 |-> Unset, out |-> NotSigned, msg |-> ""]

\* The run under way or last made.
ThisRun == IF flows = <<>> THEN Run("", "idle", 0) ELSE flows[Len(flows)]

FlowIdle == flows = <<>> \/ ThisRun.at \in {"done", "panicked"}

RunBecomes(run) == flows' = [flows EXCEPT ![Len(flows)] = run]

RunPanics(run, msg) == RunBecomes([run EXCEPT !.at = "panicked", !.msg = msg])

\* ultra.rs:16-29, trigger.rs:17-32, recurring.rs:16-30: the order is asked for.
StartOrder(fn) ==
    /\ FlowIdle
    /\ Len(flows) < MaxFlows
    /\ flows' = Append(flows, Run(fn, "order", Len(netLog)))
    /\ netLog' = Append(netLog, HttpRequest(EndpointOf(FlowOf(fn).order), FlowClient))
    /\ UNCHANGED <<procEnv, dotFile, last, prev, asmVars, threads, client, given,
                   api, reqVars>>

\* The order method returns: the expect, the signing stretch, and the
\* execute request when the signing came through.
OrderReturns(reply, content) ==
    /\ flows # <<>>
    /\ ThisRun.at = "order"
    /\ \E order \in {OrderResult(ThisRun.fn, reply, content)} :
          IF ~order.ok
          THEN /\ RunPanics(ThisRun, FlowOf(ThisRun.fn).orderFailed)
               /\ UNCHANGED <<procEnv, netLog>>
          ELSE IF ~order.val.transaction.some
          THEN /\ RunPanics([ThisRun EXCEPT !.request_id = order.val.request_id],
                            "no transaction")
               /\ UNCHANGED <<procEnv, netLog>>
          ELSE \E out \in {FlowSign(ThisRun.fn, order.val.transaction.val, procEnv,
                                    dotFile)} :
               \E run \in {[ThisRun EXCEPT !.request_id = order.val.request_id,
                                           !.hasTx = TRUE,
                                           !.transaction = order.val.transaction.val,
                                           !.env0 = procEnv,
                                           !.out = out]} :
                  /\ procEnv' = out.env
                  /\ IF out.kind = "panic"
                     THEN /\ RunPanics(run, out.msg)
                          /\ netLog' = netLog
                     ELSE /\ RunBecomes([run EXCEPT !.at = "execute"])
                          /\ netLog' = Append(netLog,
                                              ExecuteRequest(run.fn, order.val, out.tx))
    /\ UNCHANGED <<dotFile, last, prev, asmVars, threads, client, given, api,
                   reqVars>>

\* The execute method returns: ultra.rs:71-76, trigger.rs:75-80,
\* recurring.rs:63-68.
ExecuteReturns(reply) ==
    /\ flows # <<>>
    /\ ThisRun.at = "execute"
    /\ IF Outcome(EndpointOf(FlowOf(ThisRun.fn).execute), reply).ok
       THEN RunBecomes([ThisRun EXCEPT !.at = "done"])
       ELSE RunPanics(ThisRun, FlowOf(ThisRun.fn).executeFailed)
    /\ UNCHANGED <<procEnv, dotFile, last, prev, netLog, asmVars, threads, client,
                   given, api, reqVars>>

\* swap.rs:46-78, from the SwapResponse on: the transaction is signed and
\* handed to the chain.
SwapSigns(transaction) ==
    /\ FlowIdle
    /\ Len(flows) < MaxFlows
    /\ \E out \in {swap_sign(transaction, procEnv, dotFile)} :
       \E run \in {[Run("swap", "send", Len(netLog)) EXCEPT
                       !.hasTx = TRUE, !.transaction = transaction,
                       !.env0 = procEnv, !.out = out]} :
          /\ procEnv' = out.env
          /\ IF out.kind = "panic"
             THEN /\ flows' = Append(flows, [run EXCEPT !.at = "panicked",
                                                        !.msg = out.msg])
                  /\ netLog' = netLog
             ELSE /\ flows' = Append(flows, run)
                  /\ netLog' = Append(netLog,
                                      Request("send_and_confirm_transaction", out.tx))
    /\ UNCHANGED <<dotFile, last, prev, asmVars, threads, client, given, api,
                   reqVars>>

\* swap.rs:78  send_and_confirm_transaction(&tx).unwrap()
SwapSent(ok) ==
    /\ flows # <<>>
    /\ ThisRun.at = "send"
    /\ IF ok THEN RunBecomes([ThisRun EXCEPT !.at = "done"])
       ELSE RunPanics(ThisRun, "called Result::unwrap() on an Err value")
    /\ UNCHANGED <<procEnv, dotFile, last, prev, netLog, asmVars, threads, client,
                   given, api, reqVars>>

\* lib.rs:37-81: one call of sign_transaction(transaction).
LibSigns(transaction) ==
    /\ FlowIdle
    /\ Len(flows) < MaxFlows
    /\ \E out \in {lib_sign(transaction, procEnv, dotFile)} :
       \E run \in {[Run("sign_transaction", "done", Len(netLog)) EXCEPT
                       !.hasTx = TRUE, !.transaction = transaction,
                       !.env0 = procEnv, !.out = out]} :
          /\ procEnv' = out.env
          /\ flows' = Append(flows, IF out.kind = "panic"
                                    THEN [run EXCEPT !.at = "panicked",
                                                     !.msg = out.msg]
                                    ELSE run)
    /\ UNCHANGED <<dotFile, last, prev, netLog, asmVars, threads, client, given,
                   api, reqVars>>

\* The transactions the examples are handed: an envelope with no signature
\* slot, one with two slots filled by others, and a text that is no envelope.
FlowTxTexts ==
    {EncodeTx([signatures |-> slots, message |-> Message("legacy", <<PubA, PubC>>)]) :
        slots \in {ZeroSlots(0), OtherSlots(2)}}
    \cup {TxTruncated}

RequestIds == <<"req-1", "req-2", "req-3", "req-4">>

\* What an order reply may hold: the id of this order, and a transaction or
\* none.
OrderContents ==
    {[request_id |-> RequestIds[IF flows = <<>> THEN 1 ELSE Len(flows)],
      transaction |-> t] :
        t \in {None} \cup {Some(x) : x \in FlowTxTexts}}

FlowReplies(m) ==
    {TransportFailure, Response(200, JsonOf(m.returns), TRUE),
     Response(500, JsonOf(m.returns), TRUE)}

FlowInit ==
    /\ procEnv \in {Unset, SetTo(KeyA), SetTo(KeyShort)}
    /\ dotFile \in DotFiles
    /\ last = NoCall
    /\ prev = NoEarlier
    /\ netLog = <<>>
    /\ chain = NoChain
    /\ threads = NoThreads
    /\ SdkIdle
    /\ AsmIdle

FlowNext ==
    \/ \E fn \in OrderFlows : StartOrder(fn)
    \/ \E reply \in FlowReplies(EndpointOf(FlowOf(ThisRun.fn).order)),
          content \in OrderContents : OrderReturns(reply, content)
    \/ \E reply \in FlowReplies(EndpointOf(FlowOf(ThisRun.fn).execute)) :
          ExecuteReturns(reply)
    \/ \E transaction \in FlowTxTexts : SwapSigns(transaction)
    \/ \E ok \in BOOLEAN : SwapSent(ok)
    \/ \E transaction \in FlowTxTexts : LibSigns(transaction)

FlowSpec == FlowInit /\ [][FlowNext]_vars

-----------------------------------------------------------------------------
(* Reading the calls of the signer.                                         *)

\* The latest call; every call is the latest one in the state it ends in.
Calls == {c \in {last} : c.kind # "none"}
ReturnedCalls == {c \in Calls : c.kind = "return"}
\* The latest call and the earlier one kept, for claims about two calls.
TwoCalls == {c \in {Earlier(last), prev} : c.kind # "none"}
TwoReturnedCalls == {c \in TwoCalls : c.kind = "return"}

KeyBytes(env) == Base58Decode(env.val)
ValidKey(env) ==
    /\ env.set
    /\ KeyBytes(env).ok
    /\ Len(KeyBytes(env).val) = SecretLen + PubkeyLen
    /\ SubSeq(KeyBytes(env).val, SecretLen + 1, SecretLen + PubkeyLen)
         = PublicOf(SubSeq(KeyBytes(env).val, 1, SecretLen))
KeypairOf(env) ==
    [secret |-> SubSeq(KeyBytes(env).val, 1, SecretLen),
     public |-> SubSeq(KeyBytes(env).val, SecretLen + 1, SecretLen + PubkeyLen)]

Envelope(text) ==
    LET b == Base64Decode(text) IN IF b.ok THEN TxDeserialize(b.val) ELSE b
ValidTx(text) == Envelope(text).ok

ValidCall(c) == ValidKey(c.key) /\ ValidTx(c.tx)
In(c)  == Envelope(c.tx).val       \* the envelope handed in
Out(c) == Envelope(c.text).val     \* the envelope handed back
SigOf(c) == sign_message(KeypairOf(c.key), MessageSerialize(In(c).message))

\* The key's declared signer position in the message (0: not a signer).
SignerPos(c) ==
    LET m == In(c).message
        ps == {p \in 1..m.header[1] :
                 p <= Len(m.account_keys) /\ m.account_keys[p] = KeypairOf(c.key).public}
    IN  IF ps = {} THEN 0 ELSE CHOOSE p \in ps : \A q \in ps : p <= q

-----------------------------------------------------------------------------
\* C1: a valid key and a valid envelope with an empty signature list give an
\* envelope with exactly one signature, at slot 0, which is the key's
\* signature over the serialized message body.
C1_EmptyListGetsSoleSignature ==
    \A c \in Calls :
        (ValidCall(c) /\ In(c).signatures = <<>>) =>
            /\ c.kind = "return"
            /\ ValidTx(c.text)
            /\ Out(c).signatures = <<SigOf(c)>>

C1_Witness ==
    /\ last.kind = "return"
    /\ ValidCall(last)
    /\ In(last).signatures = <<>>
    /\ Len(Out(last).signatures) = 1

\* C2: with n >= 1 slots, slot 0 is overwritten with the new signature and
\* the output has the same number of slots as the input.
C2_OverwritesSlotZeroKeepsCount ==
    \A c \in Calls :
        (ValidCall(c) /\ Len(In(c).signatures) >= 1) =>
            /\ c.kind = "return"
            /\ ValidTx(c.text)
            /\ Len(Out(c).signatures) = Len(In(c).signatures)
            /\ Out(c).signatures[1] = SigOf(c)

C2_Witness ==
    /\ last.kind = "return"
    /\ Len(In(last).signatures) = 1
    /\ In(last).signatures[1] # SigOf(last)
    /\ Out(last).signatures = <<SigOf(last)>>

\* C3 as claimed: signing never changes the number of signature slots, the
\* empty signature list included.
C3_Original_SlotCountNeverChanges ==
    \A c \in ReturnedCalls : Len(Out(c).signatures) = Len(In(c).signatures)

\* C3 amended: signing keeps the number of slots of an envelope that has at
\* least one, and gives an envelope with an empty signature list one slot.
C3_SlotCountKeptUnlessEmpty ==
    \A c \in ReturnedCalls :
        Len(Out(c).signatures) =
            IF Len(In(c).signatures) = 0 THEN 1 ELSE Len(In(c).signatures)

C3_Witness ==
    /\ last.kind = "return"
    /\ Len(In(last).signatures) = 0
    /\ Len(Out(last).signatures) = 1
    /\ prev.kind = "return"
    /\ Len(In(prev).signatures) = MaxSlots
    /\ Len(Out(prev).signatures) = MaxSlots

\* C4 as claimed: the produced signature occupies the slot of the key's
\* declared signer position, also when the key is not the first signer.
C4_Original_SignatureAtSignerPosition ==
    \A c \in ReturnedCalls :
        SignerPos(c) >= 1 =>
            /\ SignerPos(c) <= Len(Out(c).signatures)
            /\ Out(c).signatures[SignerPos(c)] = SigOf(c)

\* C4 amended: the produced signature occupies slot 0 whatever the key's
\* declared signer position is; the slot of a key that is a later signer
\* keeps the content it had.
C4_SignatureAtSlotZero ==
    \A c \in ReturnedCalls :
        /\ Out(c).signatures[1] = SigOf(c)
        /\ (SignerPos(c) >= 2 /\ SignerPos(c) <= Len(In(c).signatures)) =>
              Out(c).signatures[SignerPos(c)] = In(c).signatures[SignerPos(c)]

C4_Witness ==
    /\ last.kind = "return"
    /\ SignerPos(last) = 2
    /\ Len(In(last).signatures) >= 2
    /\ Out(last).signatures[1] = SigOf(last)
    /\ Out(last).signatures[2] # SigOf(last)

\* C5: for an envelope with n >= 1 slots, decoding, signing and re-encoding
\* changes nothing but slot 0: the message body and the slots 1..n-1 of the
\* output equal those of the input.
C5_RoundTripKeepsAllButSlotZero ==
    \A c \in ReturnedCalls :
        Len(In(c).signatures) >= 1 =>
            /\ Out(c).message = In(c).message
            /\ Len(Out(c).signatures) = Len(In(c).signatures)
            /\ \A i \in 2..Len(In(c).signatures) :
                  Out(c).signatures[i] = In(c).signatures[i]

C5_Witness ==
    /\ last.kind = "return"
    /\ Len(In(last).signatures) = MaxSlots
    /\ In(last).signatures[MaxSlots] # Rep(0, SigLen)
    /\ Out(last).signatures[MaxSlots] = In(last).signatures[MaxSlots]
    /\ Out(last).signatures[1] # In(last).signatures[1]
    /\ Out(last).message = In(last).message

\* C6: the signature depends on the message body and the key only: two
\* envelopes with the same message body, signed with the same key, get the
\* same slot-0 signature whatever their signature slots hold.
C6_SignatureFromMessageAndKeyOnly ==
    \A c1, c2 \in TwoReturnedCalls :
        (c1.key = c2.key /\ In(c1).message = In(c2).message) =>
            Out(c1).signatures[1] = Out(c2).signatures[1]

C6_Witness ==
    /\ last.kind = "return" /\ prev.kind = "return"
    /\ last.key = prev.key
    /\ In(last).message = In(prev).message
    /\ Len(In(last).signatures) # Len(In(prev).signatures)
    /\ Len(In(last).signatures) >= 1 /\ Len(In(prev).signatures) >= 1
    /\ In(last).signatures[1] # In(prev).signatures[1]
    /\ Out(last).signatures[1] = Out(prev).signatures[1]

C8_Original_EnvironmentUntouched ==
    /\ netLog = <<>>
    /\ \A c \in Calls : c.key = c.env0

\* C8 amended: a sign call makes no network call and changes no environment
\* variable that is set; it reads the .env file, and a PRIVATE_KEY that was
\* not set is set to the file's entry when the file has one.
C8_EnvironmentOnlyFilledFromDotFile ==
    /\ netLog = <<>>
    /\ \A c \in Calls :
          /\ c.env0.set => c.key = c.env0
          /\ ~c.env0.set => c.key = IF dotFile.exists THEN dotFile.entry ELSE Unset

C8_Witness ==
    /\ last.kind = "return"
    /\ ~last.env0.set
    /\ last.key = dotFile.entry
    /\ procEnv = last.key

FirstFailure(c) ==
    IF ~c.key.set THEN "PRIVATE_KEY not set in .env"
    ELSE IF ~KeyBytes(c.key).ok THEN "Failed to decode base58 private key"
    ELSE IF ~ValidKey(c.key) THEN "Failed to create Keypair"
    ELSE IF ~Base64Decode(c.tx).ok THEN "Failed to decode base64 transaction"
    ELSE "called Result::unwrap() on an Err value"

-----------------------------------------------------------------------------
(* Reading a run of the assembler.                                          *)

\* The response arrived and every instruction of it was converted (the swap
\* instruction is always there, so the converted list is not empty).
Converted == swapIx.received /\ instructions # <<>>

GroupCb == OptList(swapIx.compute_budget_instructions)
GroupSetup == swapIx.setup_instructions
GroupCleanup == OptList(swapIx.cleanup_instruction)
GroupOther == OptList(swapIx.other_instructions)

\* The concrete instruction at position i was made from the abstract one a.
MadeFrom(i, a) ==
    /\ i \in 1..Len(instructions)
    /\ parse_instruction(a).ok
    /\ instructions[i] = parse_instruction(a).val

\* C10: the instruction list is the groups in the order compute-budget,
\* setup, swap, cleanup, other, each group in the order of the response, an
\* absent group adding nothing; its length is the sum of the group sizes, and
\* this list is the one handed to compilation.
C10_GroupsInFixedOrder ==
    Converted =>
        LET nCb == Len(GroupCb)
            nSetup == Len(GroupSetup)
            nCleanup == Len(GroupCleanup)
            nOther == Len(GroupOther)
        IN  /\ Len(instructions) = nCb + nSetup + 1 + nCleanup + nOther
            /\ \A i \in 1..nCb : MadeFrom(i, GroupCb[i])
            /\ \A i \in 1..nSetup : MadeFrom(nCb + i, GroupSetup[i])
            /\ MadeFrom(nCb + nSetup + 1, swapIx.swap_instruction)
            /\ \A i \in 1..nCleanup : MadeFrom(nCb + nSetup + 1 + i, GroupCleanup[i])
            /\ \A i \in 1..nOther :
                  MadeFrom(nCb + nSetup + 1 + nCleanup + i, GroupOther[i])
            /\ (~swapIx.compute_budget_instructions.some => nCb = 0)
            /\ (compiled.done => compiled.instructions = instructions)

C10_Witness ==
    /\ compiled.done
    /\ Len(GroupCb) = MaxGroup
    /\ Len(GroupSetup) = MaxGroup
    /\ Len(GroupCleanup) = 1
    /\ Len(GroupOther) = MaxGroup
    /\ Len(compiled.instructions) = 3 * MaxGroup + 2
    /\ compiled.instructions[2 * MaxGroup + 1].program_id = Rep(220, PubkeyLen)
    /\ compiled.instructions[2 * MaxGroup + 2].program_id = Rep(230, PubkeyLen)

-----------------------------------------------------------------------------
(* Reading the conversion of the instructions.                              *)

\* The abstract instructions of the response, in the order they are converted.
Abstract == InstructionOrder(swapIx)

WellFormedAddress(text) == ParsePubkey(text).ok
WellFormed(a) ==
    /\ WellFormedAddress(a.program_id)
    /\ \A j \in 1..Len(a.accounts) : WellFormedAddress(a.accounts[j].pubkey)
    /\ Base64Decode(a.data).ok

\* Position of the first instruction that is not well formed (0: none is).
FirstBad ==
    LET bad == {i \in 1..Len(Abstract) : ~WellFormed(Abstract[i])}
    IN  IF bad = {} THEN 0 ELSE CHOOSE i \in bad : \A k \in bad : i <= k

\* The error of the first check that fails on a, in the order program id,
\* accounts in list order, payload.
FirstCheckError(a) ==
    LET badAcc == {j \in 1..Len(a.accounts) : ~WellFormedAddress(a.accounts[j].pubkey)}
    IN  IF ~WellFormedAddress(a.program_id)
        THEN "Invalid program_id pubkey: " \o ParsePubkey(a.program_id).err
        ELSE IF badAcc # {}
        THEN "Invalid account pubkey: " \o
             ParsePubkey(a.accounts[CHOOSE j \in badAcc : \A k \in badAcc : j <= k].pubkey).err
        ELSE "Base64 decoding error in instruction data: " \o Base64Decode(a.data).err

Submitted == \E i \in 1..Len(netLog) : netLog[i].call = "send_and_confirm_transaction"

\* C11: a converted instruction has the program id its abstract instruction
\* names, as many accounts as it and in the same order, each with the address
\* and the is_signer and is_writable flags of the input entry, and the bytes the
\* payload decodes to; there is one converted instruction per abstract one.
C11_TranslatedOneToOne ==
    Converted =>
        /\ Len(instructions) = Len(Abstract)
        /\ \A i \in 1..Len(instructions) :
              LET a == Abstract[i]
                  c == instructions[i]
              IN  /\ Base58Encode(c.program_id) = a.program_id
                  /\ Len(c.accounts) = Len(a.accounts)
                  /\ \A j \in 1..Len(a.accounts) :
                        /\ Base58Encode(c.accounts[j].pubkey) = a.accounts[j].pubkey
                        /\ c.accounts[j].is_signer = a.accounts[j].is_signer
                        /\ c.accounts[j].is_writable = a.accounts[j].is_writable
                  /\ Base64Encode(c.data) = a.data

C11_Witness ==
    /\ Converted
    /\ Len(instructions) >= 2
    /\ Len(instructions[1].accounts) = 2
    /\ instructions[1].accounts[1].is_signer
    /\ ~instructions[1].accounts[2].is_signer
    /\ instructions[1].accounts[2].is_writable
    /\ instructions[1].accounts[1].pubkey # instructions[1].accounts[2].pubkey
    /\ Len(instructions[1].data) = 2

HasBadProgramId ==
    /\ swapIx.received
    /\ \E i \in 1..Len(Abstract) : ~WellFormedAddress(Abstract[i].program_id)

\* C12 as claimed: an instruction whose program id is no valid address does
\* not crash the assembler, which hands an error back to its caller.
C12_Original_BadProgramIdReturnsError ==
    HasBadProgramId => pc # "panicked"

\* C12 amended: parse_instruction returns an error for a program id that is
\* no valid address and the assembler unwraps it: the run panics with the
\* error of the first instruction that does not parse, which is the program
\* id error when that instruction's program id is bad; no message is compiled
\* and nothing is submitted.
C12_BadProgramIdPanics ==
    HasBadProgramId =>
        /\ pc = "panicked"
        /\ FirstBad >= 1
        /\ ~WellFormedAddress(Abstract[FirstBad].program_id) =>
              asmPanic = "Invalid program_id pubkey: "
                         \o ParsePubkey(Abstract[FirstBad].program_id).err
        /\ ~compiled.done
        /\ ~Submitted

C12_Witness ==
    /\ pc = "panicked"
    /\ swapIx.received
    /\ swapIx.swap_instruction = IxBadProgram
    /\ asmPanic = "Invalid program_id pubkey: Invalid Base58 string"
    /\ netLog # <<>>

\* C13: an instruction with a malformed account address or a payload that is
\* not base64 gives an error and no instruction; the checks run in the order
\* program id, accounts in list order, payload, and the error is that of the
\* first check that fails.
C13_FirstFailingCheckReported ==
    (swapIx.received /\ FirstBad >= 1) =>
        /\ asmPanic = FirstCheckError(Abstract[FirstBad])
        /\ instructions = <<>>

C13_Witness ==
    /\ swapIx.received
    /\ swapIx.swap_instruction = IxBadAccountsAndData
    /\ asmPanic = "Invalid account pubkey: String is the wrong size"
    /\ instructions = <<>>

-----------------------------------------------------------------------------
(* Reading the resolution of the lookup tables.                             *)

\* The chain queries of the run so far, in the order they were issued.
Queries == SelectSeq(netLog, LAMBDA r : r.call = "get_account")

\* The latest request is a chain query for an address that holds no table.
QueriedNoTable ==
    /\ netLog # <<>>
    /\ netLog[Len(netLog)].call = "get_account"
    /\ chain[netLog[Len(netLog)].arg].kind # "table"

\* The answer to the latest chain query has come and gave no table: fewer
\* tables are resolved than queries were made.
LookupFailed ==
    /\ pc # "get_account"
    /\ Len(alts) < Len(Queries)

\* C14 as claimed: a lookup-table reference the chain reports as nonexistent
\* or unreadable makes the assembler hand an error back to its caller.
C14_Original_MissingTableReturnsError ==
    (QueriedNoTable /\ pc # "get_account") => pc # "panicked"

\* C14 amended: a chain query that fails, or that finds no account or no
\* table at the reference, ends the run by panic, not by an error value; no
\* message is compiled, no key is loaded, nothing is signed or submitted, and
\* no request follows the failed query.
C14_MissingTablePanics ==
    /\ QueriedNoTable => pc \in {"get_account", "panicked"}
    /\ LookupFailed =>
          /\ pc = "panicked"
          /\ asmPanic \in {"ClientError", "InvalidAccountData"}
          /\ asmPanic = "InvalidAccountData" =>
                chain[netLog[Len(netLog)].arg].kind = "garbage"
          /\ ~compiled.done
          /\ ~asmKeypair.loaded
          /\ ~Submitted

C14_Witness ==
    /\ LookupFailed
    /\ QueriedNoTable
    /\ chain[TableB] = Missing
    /\ Len(alts) = 1
    /\ netLog[Len(netLog)].arg = TableB
    /\ pc = "panicked"

-----------------------------------------------------------------------------
(* Reading the chain queries of the current run.                            *)

\* Position in netLog of the request that started the current run (0: none).
RunStart ==
    LET starts == {i \in 1..Len(netLog) : netLog[i].call = "get_quote"}
    IN  IF starts = {} THEN 0 ELSE CHOOSE i \in starts : \A k \in starts : k <= i

\* The requests of the current run, and its chain queries, in order.
RunLog ==
    IF pc = "idle" \/ RunStart = 0 THEN <<>>
    ELSE SubSeq(netLog, RunStart, Len(netLog))
RunQueries == SelectSeq(RunLog, LAMBDA r : r.call = "get_account")
References == IF swapIx.received THEN swapIx.address_lookup_table_addresses ELSE <<>>

\* C15: the chain queries of a run are the references of the response, one
\* query per reference and in reference order, a repeated reference queried
\* again; at most one query is outstanding, every table is resolved from the
\* answer to its own query, all queries are answered before the blockhash is
\* asked for and the message compiled, and a run queries its references
\* whatever earlier runs have queried.
C15_OneQueryPerReferenceInOrder ==
    /\ Len(RunQueries) <= Len(References)
    /\ \A i \in 1..Len(RunQueries) :
          Base58Encode(RunQueries[i].arg) = References[i]
    /\ Len(alts) <= Len(RunQueries)
    /\ Len(RunQueries) <= Len(alts) + 1
    /\ pc = "get_account" => Len(RunQueries) = Len(alts) + 1
    /\ \A i \in 1..Len(alts) :
          alts[i] = [key |-> RunQueries[i].arg,
                     addresses |-> chain[RunQueries[i].arg].addresses]
    /\ \A i, j \in 1..Len(RunLog) :
          (i < j /\ RunLog[j].call = "get_account") =>
              RunLog[i].call \in {"get_quote", "get_swap_instructions", "get_account"}
    /\ compiled.done =>
          /\ Len(RunQueries) = Len(References)
          /\ compiled.address_lookup_table_accounts = alts
          /\ Len(alts) = Len(References)

C15_Witness ==
    /\ Runs = 2
    /\ compiled.done
    /\ References = <<Base58Encode(TableB), Base58Encode(TableB)>>
    /\ Len(RunQueries) = 2
    /\ Len(Queries) = 4
    /\ \A i \in 1..4 : Queries[i].arg = TableB

-----------------------------------------------------------------------------
(* Reading concurrent invocations.                                          *)

\* What the invocation returns when it runs alone from the initial state.
Alone(i) ==
    IF i.fn = "sign" THEN sign_transaction(i.tx, Dotenv(i.env0, dotFile))
    ELSE AsmKeyOutcome(i.env0)

\* C16: in every interleaving of the invocations, an invocation that has
\* ended has the result it has when it runs alone on the same inputs.
C16_InterleavingKeepsResults ==
    \A t \in DOMAIN threads :
        threads[t].at = "done" => threads[t].out = Alone(threads[t])

\* Both invocations found the variable unset, both set it, and one read the
\* key after the other one's write.
C16_Witness ==
    /\ \A t \in DOMAIN threads : threads[t].at = "done" /\ ~threads[t].wasSet
    /\ threads # NoThreads
    /\ threads[1].fn = "sign" /\ threads[2].fn = "asm"
    /\ threads[1].out.kind = "return" /\ threads[2].out.kind = "return"
    /\ ~threads[1].env0.set
    /\ procEnv.set

-----------------------------------------------------------------------------
(* Reading the API calls of the client.                                     *)

\* The reply of the call that has returned is a failure of some kind.
ReplyFailed ==
    \/ api.reply.kind = "transport"
    \/ ~IsSuccess(api.reply.status)
    \/ ~api.reply.readable
    \/ api.reply.body # JsonOf(EndpointOf(api.method).returns)

CallReturned == api.at = "idle" /\ api.calls >= 1

\* C17: every API call sends exactly one request: the requests sent are as
\* many as the calls made, the latest one is the call's own; and a call whose
\* request fails in transport, or comes back with a status that is no success
\* or with a body that does not parse, returns an error value.
C17_OneRequestPerCallErrorsReturned ==
    /\ Len(netLog) = api.calls
    /\ api.calls >= 1 =>
          /\ netLog[Len(netLog)].call = api.method
          /\ netLog[Len(netLog)].arg.url = given \o <<EndpointOf(api.method).path>>
          /\ netLog[Len(netLog)].arg.verb = EndpointOf(api.method).verb
    /\ (CallReturned /\ ReplyFailed) =>
          /\ ~api.result.ok
          /\ api.result.err.variant \in
                {"RequestError", "ApiError", "DeserializationError"}
    /\ (CallReturned /\ ~ReplyFailed) =>
          /\ api.result.ok
          /\ api.result.val.type = EndpointOf(api.method).returns

C17_Witness ==
    /\ CallReturned
    /\ api.calls = MaxCalls
    /\ api.reply.kind = "transport"
    /\ ~api.result.ok
    /\ api.result.err.variant = "RequestError"
    /\ Len(netLog) = MaxCalls
    /\ api.method = "create_recurring_order"

\* C18: a call whose response has a status that is no success returns the
\* error ApiError with the text of the body (or "Unable to get error details"
\* when the body cannot be read) and the status, never Ok; a response with a
\* success status is passed on as it is, so the result is decided by its body.
C18_NonSuccessIsApiError ==
    (CallReturned /\ api.reply.kind = "response") =>
        IF ~IsSuccess(api.reply.status)
        THEN api.result =
                Err(ApiError(IF api.reply.readable THEN api.reply.body ELSE UnableText,
                             api.reply.status))
        ELSE /\ api.result.ok <=>
                   (api.reply.readable /\
                    api.reply.body = JsonOf(EndpointOf(api.method).returns))
             /\ ~api.result.ok => api.result.err.variant = "DeserializationError"

C18_Witness ==
    /\ CallReturned
    /\ api.reply.kind = "response"
    /\ api.reply.status = 404
    /\ ~api.reply.readable
    /\ api.result = Err(ApiError(UnableText, 404))

\* C19: the client built by JupiterClient::new(u) has the base URL u as it
\* was given, and it still has it after with_api_key and after any API calls.
C19_BaseUrlKept ==
    client.state = "built" =>
        /\ client.base_url = given
        /\ \A i \in 1..Len(netLog) :
              SubSeq(netLog[i].arg.url, 1, Len(given)) = given

C19_Witness ==
    /\ client.state = "built"
    /\ "x-api-key" \in DOMAIN client.headers
    /\ api.calls = MaxCalls
    /\ api.at = "idle"
    /\ given = <<"https://api.jup.ag", "/">>
    /\ client.base_url = given

-----------------------------------------------------------------------------
(* Reading the builder calls made on the request.                           *)

\* The argument of the last call of a setter, or none when it was not called.
LastCall(setter) ==
    LET calls == {i \in 1..Len(setters) : setters[i].setter = setter}
    IN  IF calls = {} THEN [some |-> FALSE]
        ELSE [some |-> TRUE,
              val |-> setters[CHOOSE i \in calls : \A k \in calls : k <= i].arg]

\* The field holds the argument of the last call of its setter, if any.
HoldsLast(field, setter) ==
    /\ field.some = LastCall(setter).some
    /\ field.some => field.val = LastCall(setter).val

\* C20: the request has the mints and the amount UltraOrderRequest::new was
\* given, whatever setters were called since; right after new every optional
\* field is None; and each optional field holds the argument of the last call
\* of its own setter, or None when that setter was never called.
C20_BuilderSetsOwnFieldOnly ==
    ultraReq.state = "built" =>
        /\ setters[1].setter = "new"
        /\ <<ultraReq.input_mint, ultraReq.output_mint, ultraReq.amount>> = setters[1].arg
        /\ HoldsLast(ultraReq.taker, "add_taker")
        /\ HoldsLast(ultraReq.referral_account, "add_referral_account")
        /\ HoldsLast(ultraReq.referral_fee, "add_referral_fee")
        /\ HoldsLast(ultraReq.exclude_routers, "exclude_routers")
        /\ Len(setters) = 1 =>
              /\ ~ultraReq.taker.some
              /\ ~ultraReq.referral_account.some
              /\ ~ultraReq.referral_fee.some
              /\ ~ultraReq.exclude_routers.some

C20_Witness ==
    /\ ultraReq.state = "built"
    /\ Len(setters) = 4
    /\ setters[2].setter = "exclude_routers" /\ setters[2].arg = <<"jupiterz", "okx">>
    /\ setters[3].setter = "add_taker" /\ setters[3].arg = "invalid taker"
    /\ setters[4].setter = "exclude_routers" /\ setters[4].arg = <<"metis">>
    /\ ultraReq.exclude_routers = Some(<<"metis">>)
    /\ ultraReq.taker = Some("invalid taker")
    /\ ~ultraReq.referral_account.some
    /\ ultraReq.amount = 1000000000

-----------------------------------------------------------------------------
(* Reading a decimal text.                                                  *)

DigitValue(ch) == CHOOSE d \in 0..9 : Digits[d + 1] = ch

\* What a numeral is worth: ten times its front plus its last digit.
RECURSIVE Worth(_)
Worth(text) ==
    IF text = <<>> THEN 0
    ELSE 10 * Worth(SubSeq(text, 1, Len(text) - 1)) + DigitValue(text[Len(text)])

\* The text is the decimal numeral of n: digits only, at least one, no
\* leading zero but for "0" itself, and worth n.
IsDecimalOf(text, n) ==
    /\ Len(text) >= 1
    /\ \A i \in 1..Len(text) : \E d \in 0..9 : text[i] = Digits[d + 1]
    /\ Len(text) > 1 => text[1] # "0"
    /\ Worth(text) = n

\* C21: the order has the mints, maker and payer CreateTriggerOrder::new was
\* given and its two amounts as decimal numerals, whatever setters were called
\* since; right after new every optional field is None; and each optional
\* field, of params or of the order, holds the argument of the last call of
\* its own setter, or None when that setter was never called.
C21_TriggerBuilderSetsOwnFieldOnly ==
    triggerReq.state = "built" =>
        /\ setters[1].setter = "new"
        /\ <<triggerReq.input_mint, triggerReq.output_mint, triggerReq.maker,
             triggerReq.payer>> = SubSeq(setters[1].arg, 1, 4)
        /\ IsDecimalOf(triggerReq.params.making_amount, setters[1].arg[5])
        /\ IsDecimalOf(triggerReq.params.taking_amount, setters[1].arg[6])
        /\ HoldsLast(triggerReq.params.expired_at, "expired_at")
        /\ HoldsLast(triggerReq.params.slippage_bps, "slippage_bps")
        /\ HoldsLast(triggerReq.params.fee_bps, "fee_bps")
        /\ HoldsLast(triggerReq.compute_unit_price, "compute_unit_price")
        /\ HoldsLast(triggerReq.fee_account, "fee_account")
        /\ HoldsLast(triggerReq.wrap_and_unwrap_sol, "wrap_and_unwrap_sol")
        /\ Len(setters) = 1 =>
              /\ ~triggerReq.params.expired_at.some
              /\ ~triggerReq.params.slippage_bps.some
              /\ ~triggerReq.params.fee_bps.some
              /\ ~triggerReq.compute_unit_price.some
              /\ ~triggerReq.fee_account.some
              /\ ~triggerReq.wrap_and_unwrap_sol.some

C21_Witness ==
    /\ triggerReq.state = "built"
    /\ Len(setters) = 4
    /\ setters[1].arg[5] = 1000000000
    /\ triggerReq.params.making_amount = <<"1", "0", "0", "0", "0", "0", "0", "0", "0", "0">>
    /\ triggerReq.params.taking_amount = <<"2", "0", "0", "0", "0", "0", "0", "0", "0">>
    /\ setters[2].setter = "expired_at" /\ setters[2].arg = "1748622171"
    /\ setters[3].setter = "wrap_and_unwrap_sol" /\ setters[3].arg = FALSE
    /\ setters[4].setter = "expired_at" /\ setters[4].arg = ""
    /\ triggerReq.params.expired_at = Some("")
    /\ triggerReq.wrap_and_unwrap_sol = Some(FALSE)
    /\ ~triggerReq.fee_account.some

\* C24: an order that carries a fee in basis points also carries the fee
\* account the fee is paid to.
C24_FeeBpsOnlyWithFeeAccount ==
    triggerReq.state = "built" =>
        (triggerReq.params.fee_bps.some => triggerReq.fee_account.some)

-----------------------------------------------------------------------------
(* The referral fee of an UltraOrderRequest.                                *)

\* The calls of add_referral_fee made so far, as positions of the log.
FeeCalls == {i \in 1..Len(setters) : setters[i].setter = "add_referral_fee"}

\* C22: add_referral_fee accepts exactly the fees from 50 to 255.  A call
\* with such a fee leaves a request whose referral_fee is that fee and whose
\* other fields are what their own setters made them; a call with a lower
\* fee panics and leaves no request, and no call is made after it.  So a
\* built request has no referral_fee or one from 50 to 255.
C22_ReferralFeeFrom50To255 ==
    /\ \A i \in FeeCalls : setters[i].arg \in 0..255
    /\ ultraReq.state = "panicked" <=>
          (FeeCalls # {} /\ setters[Len(setters)].setter = "add_referral_fee"
                         /\ setters[Len(setters)].arg < 50)
    /\ \A i \in FeeCalls : setters[i].arg < 50 => i = Len(setters)
    /\ ultraReq.state = "built" =>
          /\ ultraReq.referral_fee.some =>
                (50 <= ultraReq.referral_fee.val /\ ultraReq.referral_fee.val <= 255)
          /\ setters[Len(setters)].setter = "add_referral_fee" =>
                /\ ultraReq.referral_fee = Some(setters[Len(setters)].arg)
                /\ <<ultraReq.input_mint, ultraReq.output_mint, ultraReq.amount>>
                      = setters[1].arg
                /\ HoldsLast(ultraReq.taker, "add_taker")
                /\ HoldsLast(ultraReq.referral_account, "add_referral_account")
                /\ HoldsLast(ultraReq.exclude_routers, "exclude_routers")

C22_Witness ==
    /\ Len(setters) = 4
    /\ setters[2].setter = "add_referral_fee" /\ setters[2].arg = 50
    /\ setters[3].setter = "add_referral_fee" /\ setters[3].arg = 255
    /\ setters[4].setter = "add_referral_fee" /\ setters[4].arg = 49
    /\ ultraReq.state = "panicked"

-----------------------------------------------------------------------------
(* Reading the requests of the token methods.                               *)

\* The request of the call under way or last made, when it is a call of the
\* method; every call is the latest one from the state it is sent in.
Sent(name) == {i \in {Len(netLog)} : api.method = name}

\* The limit parameters a request carries.
LimitsOf(request) ==
    {request.query[k][2] : k \in {j \in 1..Len(request.query) :
                                     request.query[j][1] = "limit"}}

\* C23: a request of get_tokens_by_category carries no limit parameter when
\* the call was given None, and otherwise one limit from 1 to 100.
C23_LimitFrom1To100 ==
    \A i \in Sent("get_tokens_by_category") :
        LET limit == api.args[3]
            sent == LimitsOf(netLog[i].arg)
        IN  /\ ~limit.some => sent = {}
            /\ limit.some => sent = {limit.val} /\ sent \subseteq 1..100

\* The number of "?" marks of a URL.
Marks(url) == Cardinality({i \in 1..Len(url) : url[i] = "?"})

\* C30: get_new_tokens asks for {base_url}/tokens/v1/new, followed by nothing
\* when limit and offset are None, by ?limit=L for a limit only, by
\* ?limit=L&offset=O for both, and for an offset only by ?offset=O, or by
\* &offset=O when base_url already holds a "?"; the method adds at most one
\* "?" to the URL.
C30_NewTokensUrl ==
    \A i \in Sent("get_new_tokens") :
        LET limit == api.args[1]
            offset == api.args[2]
            url == netLog[i].arg.url
            stem == given \o <<"/tokens/v1/new">>
            L == <<"limit=">> \o u64_to_string(limit.val)
            O == <<"offset=">> \o u64_to_string(offset.val)
        IN  /\ Marks(url) <= Marks(given) + 1
            /\ netLog[i].arg.query = <<>>
            /\ (~limit.some /\ ~offset.some) => url = stem
            /\ (limit.some /\ ~offset.some) => url = stem \o <<"?">> \o L
            /\ (limit.some /\ offset.some) => url = stem \o <<"?">> \o L \o <<"&">> \o O
            /\ (~limit.some /\ offset.some) =>
                  url = stem \o (IF Marks(given) > 0 THEN <<"&">> ELSE <<"?">>) \o O

C30_Witness ==
    /\ api.method = "get_new_tokens"
    /\ api.at = "idle"
    /\ api.result.ok
    /\ api.args = <<NoNumber, Some(25)>>
    /\ netLog[1].arg.url = <<"https://proxy.example/fetch", "?", "target=jup",
                             "/tokens/v1/new", "&", "offset=", "2", "5">>

-----------------------------------------------------------------------------
(* Reading a TokenPriceRequest and what get_token_price sends of it.        *)

\* The values a query holds under a key.
ValuesOf(query, key) ==
    {query[k][2] : k \in {j \in 1..Len(query) : query[j][1] = key}}

\* The text is the mints in their order with one "," between neighbours:
\* nothing at all for no mints.
IsCommaList(text, mints) ==
    /\ Len(text) = (IF mints = <<>> THEN 0 ELSE 2 * Len(mints) - 1)
    /\ \A i \in 1..Len(mints) : text[2 * i - 1] = mints[i]
    /\ \A i \in 1..(Len(mints) - 1) : text[2 * i] = ","

\* C25: the request holds the mints TokenPriceRequest::new was given, as many
\* and in the same order, whatever with_vs_token and with_show_extra_info
\* calls were made since, and right after new both options are None; the
\* request serializes with exactly one ids value, the mints joined by ","
\* in that order, and that is what get_token_price sends.
C25_MintsKeptAndJoined ==
    priceReq.state = "built" =>
        /\ setters[1].setter = "new"
        /\ priceReq.token_mints = setters[1].arg
        /\ HoldsLast(priceReq.vs_token, "with_vs_token")
        /\ HoldsLast(priceReq.show_extra_info, "with_show_extra_info")
        /\ Len(setters) = 1 =>
              ~priceReq.vs_token.some /\ ~priceReq.show_extra_info.some
        /\ \E ids \in ValuesOf(TokenPriceRequest_serialize(priceReq), "ids") :
              /\ ValuesOf(TokenPriceRequest_serialize(priceReq), "ids") = {ids}
              /\ IsCommaList(ids, setters[1].arg)
        /\ \A i \in Sent("get_token_price") :
              \E ids \in ValuesOf(netLog[i].arg.query, "ids") :
                  /\ ValuesOf(netLog[i].arg.query, "ids") = {ids}
                  /\ IsCommaList(ids, api.args.token_mints)

C25_Witness ==
    /\ priceReq.state = "built"
    /\ Len(setters) = 3
    /\ setters[1].arg = <<"JUPyiwrYJFskUPiHa7hkeR8VUtAeFoSYbKedZNsDvCN",
                          "So11111111111111111111111111111111111111112">>
    /\ setters[2].setter = "with_show_extra_info"
    /\ setters[3].setter = "with_vs_token"
    /\ api.method = "get_token_price"
    /\ api.at = "idle"
    /\ netLog[1].arg.query[1] =
          <<"ids", <<"JUPyiwrYJFskUPiHa7hkeR8VUtAeFoSYbKedZNsDvCN", ",",
                     "So11111111111111111111111111111111111111112">>>>

-----------------------------------------------------------------------------
(* The four outcomes of an API call.                                        *)

\* The outcome of the call that has returned, by name.
OutcomeName == IF api.result.ok THEN "Ok" ELSE api.result.err.variant

\* C26: a call that has returned ended in exactly one of RequestError,
\* ApiError, DeserializationError and Ok, and which one is decided in that
\* order: RequestError when nothing came back; else ApiError when the status
\* is no success, whatever the body, a body of the result type included; else
\* DeserializationError when the body does not parse as the result type;
\* else Ok with a value of the result type.
C26_FourOutcomesInOrder ==
    CallReturned =>
        /\ OutcomeName \in {"RequestError", "ApiError", "DeserializationError", "Ok"}
        /\ OutcomeName =
              (IF api.reply.kind = "transport" THEN "RequestError"
               ELSE IF ~IsSuccess(api.reply.status) THEN "ApiError"
               ELSE IF ~api.reply.readable
                       \/ api.reply.body # JsonOf(EndpointOf(api.method).returns)
                    THEN "DeserializationError"
               ELSE "Ok")
        /\ OutcomeName = "ApiError" => api.result.err.status = api.reply.status
        /\ OutcomeName = "Ok" =>
              api.result.val = [type |-> EndpointOf(api.method).returns]

C26_Witness ==
    /\ CallReturned
    /\ api.method = "execute_trigger_order"
    /\ api.reply.kind = "response"
    /\ api.reply.status = 500
    /\ api.reply.readable
    /\ api.reply.body = JsonOf("ExecuteTriggerOrderResponse")
    /\ OutcomeName = "ApiError"

-----------------------------------------------------------------------------
(* Reading a CreateRecurringOrderRequest.                                   *)

\* C28: the order is of the kind its constructor made, time-based or
\* price-based, with the user, the mints and the three amounts it was given,
\* whatever builder calls were made since.  A time-based order holds as
\* min_price, max_price and start_at what the last call of with_min_price,
\* with_max_price and with_start_at gave, or None; a price-based order holds
\* as start_at what the last call of with_start_at gave, or None, and has
\* nothing else that a builder call could have changed.
C28_RecurringBuilderKeepsVariant ==
    recurringReq.state = "built" =>
        LET a == setters[1].arg
            params == recurringReq.params
        IN  /\ <<recurringReq.user, recurringReq.input_mint, recurringReq.output_mint>>
                  = SubSeq(a, 1, 3)
            /\ setters[1].setter = "new_time_order" =>
                  /\ params.variant = "TimeWrapper"
                  /\ DOMAIN params = {"variant", "time"}
                  /\ <<params.time.in_amount, params.time.number_of_orders,
                       params.time.interval>> = SubSeq(a, 4, 6)
                  /\ HoldsLast(params.time.min_price, "with_min_price")
                  /\ HoldsLast(params.time.max_price, "with_max_price")
                  /\ HoldsLast(params.time.start_at, "with_start_at")
            /\ setters[1].setter = "new_price_order" =>
                  /\ params.variant = "PriceWrapper"
                  /\ DOMAIN params = {"variant", "price"}
                  /\ DOMAIN params.price = {"deposit_amount", "increment_usdc_value",
                                            "interval", "start_at"}
                  /\ <<params.price.deposit_amount, params.price.increment_usdc_value,
                       params.price.interval>> = SubSeq(a, 4, 6)
                  /\ HoldsLast(params.price.start_at, "with_start_at")
            /\ setters[1].setter \in {"new_time_order", "new_price_order"}

C28_Witness ==
    /\ recurringReq.state = "built"
    /\ Len(setters) = 4
    /\ setters[1].setter = "new_price_order"
    /\ setters[2].setter = "with_min_price" /\ setters[2].arg = 150
    /\ setters[3].setter = "with_start_at" /\ setters[3].arg = 1748622171
    /\ setters[4].setter = "with_max_price" /\ setters[4].arg = 200
    /\ recurringReq.params.price =
          [deposit_amount |-> 1000000000, increment_usdc_value |-> 10,
           interval |-> 84600, start_at |-> Some(1748622171)]

\* The runs that reached the slot step: the key loaded and the envelope was
\* read.
ReachedSlots(run) ==
    /\ run.hasTx
    /\ LoadKey(Dotenv(run.env0, dotFile)).ok
    /\ DecodeTx(run.transaction).ok

\* C27: every signing flow (sign_transaction and the swap, ultra, trigger and
\* recurring examples) applies one slot policy to the envelope it was handed:
\* an empty signature list gets the signature as its sole entry, otherwise
\* slot 0 is overwritten; so for the same envelope and key all five leave the
\* same signature list, the envelope with no slots included.
C27_SameSlotPolicyInEveryFlow ==
    \A i \in 1..Len(flows) :
        ReachedSlots(flows[i]) =>
            LET run == flows[i]
                tx == DecodeTx(run.transaction).val
                keypair == LoadKey(Dotenv(run.env0, dotFile)).val
                signature == sign_message(keypair, MessageSerialize(tx.message))
            IN  /\ run.out.kind = "signed"
                /\ run.out.tx.signatures =
                      IF tx.signatures = <<>> THEN <<signature>>
                      ELSE [tx.signatures EXCEPT ![1] = signature]

\* The requests a run sent after its order request.
SentAfterOrder(i) ==
    {k \in (flows[i].start + 2)..Len(netLog) :
        i < Len(flows) => k <= flows[i + 1].start}

ExecutesOf(i) ==
    {k \in SentAfterOrder(i) : netLog[k].call = FlowOf(flows[i].fn).execute}

====
